---- MODULE Spec2Model ----
(***************************************************************************)
(* A model of sanctum-solver: the tile grid, the overlay-aware adjacency   *)
(* and breadth-first shortest path, the two block-placement strategies of  *)
(* Build (round-robin and priority) with the pruning pass, and the driver  *)
(* App::run.                                                               *)
(*                                                                         *)
(* An Option<T> is a sequence of length at most one: None is <<>> and      *)
(* Some(x) is <<x>>.  A Coordinate(x, y) is the pair <<x, y>>, 0-based as  *)
(* in the source; a grid is a sequence of rows, so grid[y + 1][x + 1] is   *)
(* the tile the source writes grid[y][x].                                  *)
(***************************************************************************)
EXTENDS Integers, Sequences, FiniteSets, TLC

VARIABLES
    grid,                      \* the tile grid: map.grid as read, then tileset.grid
    map_grid,                  \* map.grid of the emitted document (None until it is written)
    entrances_by_region,       \* tileset.entrances_by_region
    diagonals,                 \* App.diagonals
    prioritize,                \* App.prioritize
    max_blocks,                \* App.blocks : Option<usize>
    pc,                        \* position of App::run
    blocks,                    \* build.blocks
    current_entrance,          \* round-robin: region index
    placements,                \* round-robin: placements counter
    shortest_paths_by_region,  \* priority: the BTreeMap, as its in-order entry sequence
    report,                    \* map.shortest_path_length
    last,                      \* what the last loop iteration did (history)
    steps,                     \* the loop iterations begun so far (history)
    query                      \* the pending / answered query of the pure-function specification

vars == <<grid, map_grid, entrances_by_region, diagonals, prioritize, max_blocks, pc, blocks, current_entrance,
          placements, shortest_paths_by_region, report, last, steps, query>>

-----------------------------------------------------------------------------
(* Option *)

None == <<>>

Some(x) == <<x>>

-----------------------------------------------------------------------------
(* Tile *)

Block == "Block"

Core == "Core"

Empty == "Empty"

Impass == "Impass"

Pass == "Pass"

Spawn == "Spawn"

Tile == {Block, Core, Empty, Impass, Pass, Spawn}

\* a passability that lets a path run over blocks
is_passable_or_block(tile) == tile \in {Empty, Pass, Block}

is_passable(tile) == tile \in {Empty, Pass}

\* Pass counted among the region kinds
is_region_or_pass(tile) == tile \in {Core, Spawn, Pass}

is_region(tile) == tile \in {Core, Spawn}

-----------------------------------------------------------------------------
(* Coordinate *)

Coordinate(x, y) == <<x, y>>

\* grid.get(self.1) and then inner.get(self.0): None when either index is out of range
get_from(coord, g) ==
    IF coord[2] + 1 \in DOMAIN g
    THEN IF coord[1] + 1 \in DOMAIN g[coord[2] + 1]
         THEN Some(g[coord[2] + 1][coord[1] + 1])
         ELSE None
    ELSE None

\* a read that leaves the build out
get_from_ignoring_build(coord, g, build) == get_from(coord, g)

\* build is an Option of a Container; a Container is the set of what it contains
get_from_with_build(coord, g, build) ==
    IF build = None
    THEN get_from(coord, g)
    ELSE IF coord \in build[1]
         THEN Some(Block)
         ELSE get_from(coord, g)

\* .expect(COORDINATE_ON_TILESET): the callers only pass coordinates of the grid
expect_tile(opt) == opt[1]

\* the outcome of an operation that panicked (no grid is empty)
Panicked == <<>>

\* a set that takes the first component for the row and the second for the column
set_transposed(coord, g, value) ==
    IF coord[1] + 1 \in DOMAIN g
    THEN IF coord[2] + 1 \in DOMAIN g[coord[1] + 1]
         THEN [g EXCEPT ![coord[1] + 1][coord[2] + 1] = value]
         ELSE Panicked
    ELSE g

\* Coordinate::set: a row index out of range is skipped (grid.get_mut gives None),
\* a column index out of range panics on inner[self.0]
set(coord, g, value) ==
    IF coord[2] + 1 \in DOMAIN g
    THEN IF coord[1] + 1 \in DOMAIN g[coord[2] + 1]
         THEN [g EXCEPT ![coord[2] + 1][coord[1] + 1] = value]
         ELSE Panicked
    ELSE g

\* #[derive(Ord)] on Coordinate(x, y): by x, then by y
CoordLess(a, b) == a[1] < b[1] \/ (a[1] = b[1] /\ a[2] < b[2])

\* every coordinate of the grid
Coords(g) == {Coordinate(x, y) : x \in 0..(Len(g[1]) - 1), y \in 0..(Len(g) - 1)}

-----------------------------------------------------------------------------
(* Adjacent *)

\* Adjacent::for_each: the present neighbours in the order
\* up, right, down, left, up_right, down_right, down_left, up_left
for_each(adjacent) ==
    adjacent.up \o adjacent.right \o adjacent.down \o adjacent.left
    \o adjacent.up_right \o adjacent.down_right \o adjacent.down_left \o adjacent.up_left

if_then_or_none(cond, value) == IF cond THEN Some(value) ELSE None

from_grid_coordinate(g, coord, diag) ==
    LET can_move_up == coord[2] > 0
        can_move_right == coord[1] < Len(g[coord[2] + 1]) - 1
        can_move_down == coord[2] < Len(g) - 1
        can_move_left == coord[1] > 0
    IN  [up |-> if_then_or_none(can_move_up, Coordinate(coord[1], coord[2] - 1)),
         right |-> if_then_or_none(can_move_right, Coordinate(coord[1] + 1, coord[2])),
         down |-> if_then_or_none(can_move_down, Coordinate(coord[1], coord[2] + 1)),
         left |-> if_then_or_none(can_move_left, Coordinate(coord[1] - 1, coord[2])),
         up_right |-> if_then_or_none(can_move_up /\ can_move_right /\ diag,
                                      Coordinate(coord[1] + 1, coord[2] - 1)),
         down_right |-> if_then_or_none(can_move_down /\ can_move_right /\ diag,
                                        Coordinate(coord[1] + 1, coord[2] + 1)),
         down_left |-> if_then_or_none(can_move_down /\ can_move_left /\ diag,
                                       Coordinate(coord[1] - 1, coord[2] + 1)),
         up_left |-> if_then_or_none(can_move_up /\ can_move_left /\ diag,
                                     Coordinate(coord[1] - 1, coord[2] - 1))]

\* the closure can_move_to of from_grid_coordinate_with_build
can_move_to(g, build, direction) ==
    IF direction = None
    THEN FALSE
    ELSE is_passable(expect_tile(get_from_with_build(direction[1], g, build)))

\* a corner rule that clears the slot as soon as one flank is closed
if_then_none_either(cond_a, cond_b, slot) == IF ~cond_a \/ ~cond_b THEN None ELSE slot

\* if_then_none!: the slot is cleared when none of the two conditions holds
if_then_none(cond_a, cond_b, slot) == IF ~cond_a /\ ~cond_b THEN None ELSE slot

from_grid_coordinate_with_build(g, build, coord, diag) ==
    LET adjacent == from_grid_coordinate(g, coord, diag)
        can_move_up == can_move_to(g, build, adjacent.up)
        can_move_right == can_move_to(g, build, adjacent.right)
        can_move_down == can_move_to(g, build, adjacent.down)
        can_move_left == can_move_to(g, build, adjacent.left)
    IN  IF diag
        THEN [adjacent EXCEPT
                !.up_right = if_then_none(can_move_up, can_move_right, @),
                !.down_right = if_then_none(can_move_down, can_move_right, @),
                !.down_left = if_then_none(can_move_down, can_move_left, @),
                !.up_left = if_then_none(can_move_up, can_move_left, @)]
        ELSE adjacent

-----------------------------------------------------------------------------
(* ShortestPath *)

\* the struct ShortestPath {path, start_distance}
ShortestPath(path, start_distance) == [path |-> path, start_distance |-> start_distance]

\* the cells of the path alone
len_of_path(sp) == Len(sp.path)

\* ShortestPath::len: start_distance.unwrap_or(0) is added
len(sp) == Len(sp.path) + (IF sp.start_distance = None THEN 0 ELSE sp.start_distance[1])

\* the neighbours pushed to the back of the queue, each with the path extended by it
push_adjacent(adjacent_coords, current_path) ==
    [i \in 1..Len(adjacent_coords) |->
        <<adjacent_coords[i], Append(current_path, adjacent_coords[i])>>]

\* a search that takes the newest entries first
push_front(queue, items) == items \o queue

\* LinkedList::push_back, for every item in turn
push_back(queue, items) == queue \o items

\* visited.insert(coord, n)
map_insert(m, k, v) == [x \in (DOMAIN m) \cup {k} |-> IF x = k THEN v ELSE m[x]]

\* the while-let loop of from_grid_coordinate_to_tile
RECURSIVE bfs_loop(_, _, _, _, _, _, _)
bfs_loop(g, build, start_distance, end_point, diag, coordinate_path_queue, visited) ==
    IF coordinate_path_queue = <<>>
    THEN None
    ELSE LET coord == Head(coordinate_path_queue)[1]
             current_path == Head(coordinate_path_queue)[2]
             rest == Tail(coordinate_path_queue)
         IN  IF coord \in DOMAIN visited /\ Len(current_path) >= visited[coord]
             THEN bfs_loop(g, build, start_distance, end_point, diag, rest, visited)
             ELSE LET tile == expect_tile(get_from_with_build(coord, g, build))
                  IN  IF tile = end_point
                      THEN Some(ShortestPath(current_path, start_distance))
                      ELSE bfs_loop(g, build, start_distance, end_point, diag,
                                    IF is_passable(tile)
                                    THEN push_back(rest, push_adjacent(
                                             for_each(from_grid_coordinate_with_build(
                                                 g, build, coord, diag)),
                                             current_path))
                                    ELSE rest,
                                    map_insert(visited, coord, Len(current_path)))

from_grid_coordinate_to_tile(g, build, start, start_distance, end_point, diag) ==
    LET start_tile == expect_tile(get_from_with_build(start, g, build))
    IN  IF ~is_passable(start_tile)
        THEN None
        ELSE bfs_loop(g, build, start_distance, end_point, diag,
                      <<<<start, <<start>>>>>>, <<>>)

\* "If paths are equally long, the current path is preferred."
return_shorter(self, other) == IF len(self) > len(other) THEN other ELSE self

\* impl Ord for ShortestPath: self.len().cmp(&other.len())
cmp(self, other) ==
    IF len(self) < len(other)
    THEN "Less"
    ELSE IF len(self) > len(other) THEN "Greater" ELSE "Equal"

\* start_points is the region's entrance map in iteration order, a sequence of
\* <<coordinate, start_distance>>; map, flatten, then reduce_with(return_shorter),
\* which keeps the items in order and so yields the first of the shortest
RECURSIVE reduce_with(_)
reduce_with(items) ==
    IF items = <<>>
    THEN None
    ELSE IF Len(items) = 1
         THEN Some(items[1])
         ELSE reduce_with(<<return_shorter(items[1], items[2])>> \o SubSeq(items, 3, Len(items)))

\* reduce_with on a parallel iterator: the items are split in two runs at some
\* point, each run is reduced on its own, and the two results are combined,
\* left.return_shorter(right); the set of the results of every such grouping
RECURSIVE reduce_with_grouped(_)
reduce_with_grouped(items) ==
    IF items = <<>>
    THEN {None}
    ELSE IF Len(items) = 1
         THEN {Some(items[1])}
         ELSE UNION {{Some(return_shorter(left[1], right[1])) :
                          left \in reduce_with_grouped(SubSeq(items, 1, split)),
                          right \in reduce_with_grouped(SubSeq(items, split + 1, Len(items)))} :
                     split \in 1..(Len(items) - 1)}

RECURSIVE flatten(_)
flatten(options) ==
    IF options = <<>> THEN <<>> ELSE Head(options) \o flatten(Tail(options))

from_any_grid_coordinate_to_tile(g, build, start_points, end_tile, diag) ==
    reduce_with(flatten(
        [i \in 1..Len(start_points) |->
            from_grid_coordinate_to_tile(g, build, start_points[i][1],
                                         Some(start_points[i][2]), end_tile, diag)]))

\* the regions' results collected last region first
from_entrances_to_any_core_reversed(tileset, build, diag) ==
    LET regions == Len(tileset.entrances_by_region)
    IN  [i \in 1..regions |->
            from_any_grid_coordinate_to_tile(tileset.grid, build,
                tileset.entrances_by_region[regions + 1 - i], Core, diag)]

\* one Option<ShortestPath> per region, in the order of entrances_by_region
ShortestPath_from_entrances_to_any_core(tileset, build, diag) ==
    [i \in 1..Len(tileset.entrances_by_region) |->
        from_any_grid_coordinate_to_tile(tileset.grid, build,
                                         tileset.entrances_by_region[i], Core, diag)]

-----------------------------------------------------------------------------
(* Tileset *)

Ok(value) == [is_ok |-> TRUE, value |-> value]

Err(error) == [is_ok |-> FALSE, error |-> error]

NotRegion(tile) == [kind |-> "NotRegion", tile |-> tile]

\* Coordinate::distance_from
distance_from(a, b) ==
    (IF a[1] >= b[1] THEN a[1] - b[1] ELSE b[1] - a[1])
    + (IF a[2] >= b[2] THEN a[2] - b[2] ELSE b[2] - a[2])

\* Vec::pop takes the last element
pop_back(queue) == SubSeq(queue, 1, Len(queue) - 1)

\* the closure get_region, looking beyond diagonal neighbours too
RECURSIVE get_region_diagonal(_, _, _, _)
get_region_diagonal(g, start_tile, coordinate_queue, visited) ==
    IF coordinate_queue = <<>>
    THEN visited
    ELSE LET coord == coordinate_queue[Len(coordinate_queue)]
             rest == pop_back(coordinate_queue)
         IN  IF coord \in visited
             THEN get_region_diagonal(g, start_tile, rest, visited)
             ELSE IF expect_tile(get_from(coord, g)) = start_tile
                  THEN get_region_diagonal(g, start_tile,
                           rest \o for_each(from_grid_coordinate(g, coord, TRUE)),
                           visited \cup {coord})
                  ELSE get_region_diagonal(g, start_tile, rest, visited)

\* the closure get_region of separate_regions
RECURSIVE get_region(_, _, _, _)
get_region(g, start_tile, coordinate_queue, visited) ==
    IF coordinate_queue = <<>>
    THEN visited
    ELSE LET coord == coordinate_queue[Len(coordinate_queue)]
             rest == pop_back(coordinate_queue)
         IN  IF coord \in visited
             THEN get_region(g, start_tile, rest, visited)
             ELSE IF expect_tile(get_from(coord, g)) = start_tile
                  THEN get_region(g, start_tile,
                                  rest \o for_each(from_grid_coordinate(g, coord, FALSE)),
                                  visited \cup {coord})
                  ELSE get_region(g, start_tile, rest, visited)

\* rows enumerated, cells enumerated and filtered by kind: the cells of the
\* kind in row-major order
filter_start_tile(g, start_tile) ==
    LET cells == {c \in Coords(g) : expect_tile(get_from(c, g)) = start_tile}
        before(c) == {d \in cells : d[2] < c[2] \/ (d[2] = c[2] /\ d[1] < c[1])}
    IN  [k \in 1..Cardinality(cells) |->
            CHOOSE c \in cells : Cardinality(before(c)) = k - 1]

\* the for_each of separate_regions over the filtered cells; index counts the
\* cells already looked at
RECURSIVE separate_scan(_, _, _, _)
separate_scan(g, start_tile, index, buckets) ==
    LET cells == filter_start_tile(g, start_tile)
    IN  IF index >= Len(cells)
        THEN buckets
        ELSE LET coord == cells[index + 1]
             IN  IF \A i \in 1..Len(buckets) : coord \notin buckets[i]
                 THEN separate_scan(g, start_tile, index + 1,
                                    Append(buckets, get_region(g, start_tile, <<coord>>, {})))
                 ELSE separate_scan(g, start_tile, index + 1, buckets)

separate_regions(g, start_tile) ==
    IF ~is_region(start_tile)
    THEN Err(NotRegion(start_tile))
    ELSE Ok(separate_scan(g, start_tile, 0, <<>>))

\* the while-let loop of get_adjacent_to, looking beyond tiles of the needle's kind too
RECURSIVE get_adjacent_loop_through_needle(_, _, _, _, _)
get_adjacent_loop_through_needle(g, start_tile, needle, coordinate_queue, visited) ==
    IF coordinate_queue = <<>>
    THEN visited
    ELSE LET coord == coordinate_queue[Len(coordinate_queue)]
             rest == pop_back(coordinate_queue)
             tile == expect_tile(get_from(coord, g))
         IN  IF coord \in visited
             THEN get_adjacent_loop_through_needle(g, start_tile, needle, rest, visited)
             ELSE get_adjacent_loop_through_needle(g, start_tile, needle,
                      IF (is_region(start_tile) /\ tile = start_tile) \/ is_passable(tile)
                      THEN rest \o for_each(from_grid_coordinate(g, coord, FALSE))
                      ELSE rest,
                      visited \cup {coord})

\* the while-let loop of get_adjacent_to
RECURSIVE get_adjacent_loop(_, _, _, _, _)
get_adjacent_loop(g, start_tile, needle, coordinate_queue, visited) ==
    IF coordinate_queue = <<>>
    THEN visited
    ELSE LET coord == coordinate_queue[Len(coordinate_queue)]
             rest == pop_back(coordinate_queue)
             tile == expect_tile(get_from(coord, g))
         IN  IF coord \in visited
             THEN get_adjacent_loop(g, start_tile, needle, rest, visited)
             ELSE get_adjacent_loop(g, start_tile, needle,
                      IF (is_region(start_tile) /\ tile = start_tile)
                         \/ (is_passable(tile) /\ tile # needle)
                      THEN rest \o for_each(from_grid_coordinate(g, coord, FALSE))
                      ELSE rest,
                      visited \cup {coord})

get_adjacent_to(g, start, needle) ==
    {coord \in get_adjacent_loop(g, expect_tile(get_from(start, g)), needle, <<start>>, {}) :
        expect_tile(get_from(coord, g)) = needle}

\* a set of coordinates as the sequence an ordered map iterates it in
RECURSIVE in_order(_)
in_order(coords) ==
    IF coords = {}
    THEN <<>>
    ELSE LET first == CHOOSE c \in coords : \A d \in coords \ {c} : CoordLess(c, d)
         IN  <<first>> \o in_order(coords \ {first})

\* the anchor of a region: its cell the row-major scan meets first
anchor_of(region) ==
    CHOOSE c \in region : \A d \in region \ {c} : d[2] > c[2] \/ (d[2] = c[2] /\ d[1] > c[1])

\* the entrance map of one spawn region: Coordinate -> distance from the anchor
entrances_of(g, region) ==
    LET anchor == anchor_of(region)
        entrances == in_order(get_adjacent_to(g, anchor, Empty))
    IN  [i \in 1..Len(entrances) |-> <<entrances[i], distance_from(entrances[i], anchor)>>]

\* Tileset::new: the grid and one entrance map per spawn region
Tileset_new(g) ==
    LET regions == separate_regions(g, Spawn).value
    IN  [grid |-> g,
         entrances_by_region |-> [i \in 1..Len(regions) |-> entrances_of(g, regions[i])]]


-----------------------------------------------------------------------------
(* Build *)

\* TempBuild as a Container: contains(c) iff blocks.contains(c) or c = temp_block
TempBuild(container, temp_block) == container \cup {temp_block}

\* the tileset the strategies borrow
Tileset(g, entrances) == [grid |-> g, entrances_by_region |-> entrances]

\* a validity test that reads the grid without the build
is_valid_without_build(tileset, container) ==
    \A i \in 1..Len(tileset.entrances_by_region) :
        \E j \in 1..Len(tileset.entrances_by_region[i]) :
            from_grid_coordinate_to_tile(tileset.grid, Some({}),
                                         tileset.entrances_by_region[i][j][1],
                                         None, Core, FALSE) # None

\* a validity test that is content with one connected region
is_valid_any_region(tileset, container) ==
    \E i \in 1..Len(tileset.entrances_by_region) :
        \E j \in 1..Len(tileset.entrances_by_region[i]) :
            from_grid_coordinate_to_tile(tileset.grid, Some(container),
                                         tileset.entrances_by_region[i][j][1],
                                         None, Core, FALSE) # None

is_valid(tileset, container) ==
    \A i \in 1..Len(tileset.entrances_by_region) :
        \E j \in 1..Len(tileset.entrances_by_region[i]) :
            from_grid_coordinate_to_tile(tileset.grid, Some(container),
                                         tileset.entrances_by_region[i][j][1],
                                         None, Core, FALSE) # None

\* a candidate test that leaves the validity of the build out
is_placement_unchecked(tileset, container, coord) ==
    expect_tile(get_from(coord, tileset.grid)) = Empty

\* a candidate test that leaves the tile of the candidate out
is_placement_any_tile(tileset, container, coord) ==
    is_valid(tileset, TempBuild(container, coord))

\* the candidate test of find_valid_block_placement
is_placement(tileset, container, coord) ==
    /\ expect_tile(get_from(coord, tileset.grid)) = Empty
    /\ is_valid(tileset, TempBuild(container, coord))

\* a find that scans the path from its first cell on
find_from_start(tileset, container, shortest_path, index) ==
    LET hits == {k \in 1..index : is_placement(tileset, container, shortest_path[k])}
    IN  IF hits = {}
        THEN None
        ELSE Some(shortest_path[CHOOSE k \in hits : \A h \in hits : k <= h])

\* shortest_path.into_iter().rev().find(..): index runs from the last cell to the first
RECURSIVE rev_find(_, _, _, _)
rev_find(tileset, container, shortest_path, index) ==
    IF index = 0
    THEN None
    ELSE IF is_placement(tileset, container, shortest_path[index])
         THEN Some(shortest_path[index])
         ELSE rev_find(tileset, container, shortest_path, index - 1)

find_valid_block_placement(tileset, container, shortest_path) ==
    rev_find(tileset, container, shortest_path, Len(shortest_path))

\* returns the block set and whether coord was removed
\* a removal that never puts the coordinate back
try_remove_coord_unrestored(self_blocks, tileset, expected_shortest_paths, coord, diag) ==
    IF coord \in self_blocks
    THEN [blocks |-> self_blocks \ {coord}, removed |-> TRUE]
    ELSE [blocks |-> self_blocks, removed |-> FALSE]

try_remove_coord(self_blocks, tileset, expected_shortest_paths, coord, diag) ==
    IF coord \in self_blocks
    THEN LET removed == self_blocks \ {coord}
             actual_shortest_path ==
                 ShortestPath_from_entrances_to_any_core(tileset, Some(removed), diag)
         IN  IF actual_shortest_path # expected_shortest_paths
             THEN [blocks |-> self_blocks, removed |-> FALSE]
             ELSE [blocks |-> removed, removed |-> TRUE]
    ELSE [blocks |-> self_blocks, removed |-> FALSE]

\* the while-let loop of try_remove_adjacent_to; adjacent_queue holds the
\* coordinates of the queued Adjacent values, in the order for_each visits them
RECURSIVE try_remove_loop(_, _, _, _, _, _, _)
try_remove_loop(self_blocks, tileset, coord, diag, expected_shortest_paths, visited, adjacent_queue) ==
    IF adjacent_queue = <<>>
    THEN self_blocks
    ELSE LET adjacent_coord == Head(adjacent_queue)
         IN  IF adjacent_coord \in self_blocks /\ adjacent_coord \notin visited
             THEN LET expected ==
                          IF expected_shortest_paths = None
                          THEN Some(ShortestPath_from_entrances_to_any_core(
                                        tileset, Some(self_blocks), diag))
                          ELSE expected_shortest_paths
                      tried == try_remove_coord(self_blocks, tileset, expected[1],
                                                coord, diag)
                  IN  try_remove_loop(tried.blocks, tileset, coord, diag, expected,
                          visited \cup {adjacent_coord},
                          IF tried.removed
                          THEN Tail(adjacent_queue)
                               \o for_each(from_grid_coordinate(tileset.grid,
                                                                adjacent_coord, diag))
                          ELSE Tail(adjacent_queue))
             ELSE try_remove_loop(self_blocks, tileset, coord, diag,
                                  expected_shortest_paths, visited, Tail(adjacent_queue))

\* a pruning pass that drops the neighbouring blocks without comparing any path
try_remove_adjacent_unchecked(self_blocks, tileset, coord, diag) ==
    self_blocks \ {for_each(from_grid_coordinate(tileset.grid, coord, diag))[i] :
                       i \in 1..Len(for_each(from_grid_coordinate(tileset.grid, coord, diag)))}

try_remove_adjacent_to(self_blocks, tileset, coord, diag) ==
    try_remove_loop(self_blocks, tileset, coord, diag, None, {},
                    for_each(from_grid_coordinate(tileset.grid, coord, diag)))

\* build.blocks.insert(coord), then build.try_remove_adjacent_to(tileset, coord, diagonals)
commit(self_blocks, tileset, coord, diag) ==
    try_remove_adjacent_to(self_blocks \cup {coord}, tileset, coord, diag)

\* a cap test that lets one more block in
below_or_at_cap(max, self_blocks) ==
    IF max = None THEN TRUE ELSE max[1] >= Cardinality(self_blocks)

\* max_blocks.map(|max| max > build.blocks.len()).unwrap_or(true)
below_cap(max, self_blocks) ==
    IF max = None THEN TRUE ELSE max[1] > Cardinality(self_blocks)

\* tileset.entrances_by_region.len() - 1 is a subtraction on usize: without a
\* region it overflows, which panics where overflow is checked and wraps to
\* usize::MAX where it is not
sub_overflows(n) == n = 0

\* a cycle that starts over even when it placed nothing
next_entrance_no_break(current, placed, n) ==
    IF current < n - 1
    THEN [break |-> FALSE, current_entrance |-> current + 1, placements |-> placed]
    ELSE [break |-> FALSE, current_entrance |-> 0, placements |-> 0]

\* a cycle that needs more than one placement to start over
next_entrance_early_break(current, placed, n) ==
    IF current < n - 1
    THEN [break |-> FALSE, current_entrance |-> current + 1, placements |-> placed]
    ELSE IF placed > 1
         THEN [break |-> FALSE, current_entrance |-> 0, placements |-> 0]
         ELSE [break |-> TRUE, current_entrance |-> current, placements |-> placed]

\* the block computing `entrance` in the round-robin loop; n is the number of regions
next_entrance(current, placed, n) ==
    IF current < n - 1
    THEN [break |-> FALSE, current_entrance |-> current + 1, placements |-> placed]
    ELSE IF placed > 0
         THEN [break |-> FALSE, current_entrance |-> 0, placements |-> 0]
         ELSE [break |-> TRUE, current_entrance |-> current, placements |-> placed]

\* the shortest path of region `region` (0-based) under the committed blocks
region_shortest_path(tileset, self_blocks, region, diag) ==
    from_any_grid_coordinate_to_tile(tileset.grid, Some(self_blocks),
                                     tileset.entrances_by_region[region + 1], Core, diag)

-----------------------------------------------------------------------------
(* BTreeMap<ShortestPath, usize>, as the sequence of its entries in order;  *)
(* keys are compared by Ord for ShortestPath, that is by len alone          *)

Entry(key, value) == [key |-> key, value |-> value]

\* BTreeMap::insert: an entry whose key compares equal keeps its key and takes
\* the new value; otherwise the entry goes in at its place in the order
btree_insert(m, key, value) ==
    IF \E i \in 1..Len(m) : len(m[i].key) = len(key)
    THEN LET i == CHOOSE i \in 1..Len(m) :
                      /\ len(m[i].key) = len(key)
                      /\ \A j \in 1..(i - 1) : len(m[j].key) # len(key)
         IN  [m EXCEPT ![i].value = value]
    ELSE LET below == Cardinality({i \in 1..Len(m) : len(m[i].key) < len(key)})
         IN  SubSeq(m, 1, below) \o <<Entry(key, value)>> \o SubSeq(m, below + 1, Len(m))

\* FromIterator by inserting item after item (standard library before the bulk build)
RECURSIVE btree_extend(_, _)
btree_extend(m, items) ==
    IF items = <<>>
    THEN m
    ELSE btree_extend(btree_insert(m, Head(items).key, Head(items).value), Tail(items))

\* a stable sort by key order
RECURSIVE stable_sort(_)
stable_sort(items) ==
    IF items = <<>>
    THEN <<>>
    ELSE LET i == CHOOSE i \in 1..Len(items) :
                      /\ \A j \in 1..Len(items) : len(items[i].key) <= len(items[j].key)
                      /\ \A j \in 1..(i - 1) : len(items[j].key) # len(items[i].key)
         IN  <<items[i]>> \o stable_sort(SubSeq(items, 1, i - 1)
                                         \o SubSeq(items, i + 1, Len(items)))

\* DedupSortedIter: of neighbours with equal (==) keys only the last is kept
RECURSIVE dedup_sorted(_)
dedup_sorted(items) ==
    IF Len(items) <= 1
    THEN items
    ELSE IF items[1].key = items[2].key
         THEN dedup_sorted(Tail(items))
         ELSE <<items[1]>> \o dedup_sorted(Tail(items))

\* FromIterator by sorting and bulk building (standard library since the bulk build)
btree_bulk_build(items) == dedup_sorted(stable_sort(items))

\* .collect() into the BTreeMap: which of the two the toolchain provides
btree_from_iter(items, bulk) ==
    IF bulk THEN btree_bulk_build(items) ELSE btree_extend(<<>>, items)

\* .enumerate().map(|(index, shortest_path)| (shortest_path.expect(VALID_BUILD), index))
enumerate_paths(paths) == [i \in 1..Len(paths) |-> Entry(paths[i][1], i - 1)]


\* Build::apply_to: coordinate.set(grid, Tile::Block) for every block
RECURSIVE apply_to(_, _)
apply_to(self_blocks, g) ==
    IF self_blocks = {} \/ g = Panicked
    THEN g
    ELSE LET coordinate == CHOOSE c \in self_blocks : TRUE
         IN  apply_to(self_blocks \ {coordinate}, set(coordinate, g, Block))

\* a strategy that writes its blocks into the grid it was given
materialised(g, overlay) == apply_to(overlay, g)

\* the strategies and the queries hold the tileset by shared reference
\* (tileset: &Tileset, grid: &[..]): the grid they leave behind is the grid they got
borrowed(g, overlay) == g

-----------------------------------------------------------------------------
(* Inputs *)

\* the largest max_blocks tried; max_blocks is None or Some(0..MaxCap)
MaxCap == 2

\* the loop iterations a run is followed for
MaxSteps == 50

\* the largest Build handed to apply_to on its own
MaxBuild == 2

\* the largest overlay of the pure-function queries
MaxOverlay == 1

Grids ==
    LET E == Empty
        I == Impass
        P == Pass
        S == Spawn
        C == Core
    IN  { \* one spawn, open field
          << <<S, E, E, E>>,
             <<E, E, E, E>>,
             <<E, E, E, C>> >>,
          \* a lane of Pass tiles in front of the spawn
          << <<S, P, E, E>>,
             <<I, P, E, E>>,
             <<I, E, E, C>> >>,
          \* two spawn regions at equal distance of the core
          << <<S, E, E, E, S>>,
             <<E, E, E, E, E>>,
             <<E, E, C, E, E>> >>,
          \* two spawn regions at different distances
          << <<S, E, E, E, E>>,
             <<E, E, I, E, S>>,
             <<E, C, E, E, E>> >>,
          \* corners for the diagonal rule
          << <<S, E, I, E>>,
             <<E, E, E, E>>,
             <<I, E, E, E>>,
             <<E, E, E, C>> >>,
          \* two spawn regions sharing an entrance
          << <<S, E, S>>,
             <<E, E, E>>,
             <<E, C, E>> >>,
          \* a spawn region of two cells, a lane, a core region of two cells
          << <<S, S, P, E>>,
             <<I, I, P, E>>,
             <<C, E, E, E>>,
             <<C, E, E, E>> >>,
          \* a spawn without entrance
          << <<S, I, E>>,
             <<I, E, E>>,
             <<E, E, C>> >>,
          \* a spawn whose entrances are cut off from the core
          << <<S, E, I, C>>,
             <<E, E, I, E>> >>,
          \* two spawn regions, the second cut off from the core
          << <<S, E, E, C>>,
             <<I, I, I, I>>,
             <<S, E, E, E>> >>,
          \* no spawn region
          << <<E, E, C>>,
             <<E, I, E>> >>,
          \* a far entrance at the end of a lane, nearer to the core than the near one
          << <<S, P, P, E>>,
             <<E, I, I, E>>,
             <<E, E, C, C>> >>,
          \* three spawn regions, two of them touching at a corner only
          << <<S, E, E, S>>,
             <<E, S, E, S>>,
             <<E, E, C, E>> >> }

Caps == {None} \cup {Some(n) : n \in 0..MaxCap}

NoEntry == [kind |-> "none", region |-> None, coord |-> None, path |-> <<>>, before |-> {}]

NoQuery == [kind |-> "none"]

-----------------------------------------------------------------------------
(* App::run *)

Init ==
    /\ grid \in Grids
    /\ map_grid = None
    /\ entrances_by_region = <<>>
    /\ diagonals \in BOOLEAN
    /\ prioritize \in BOOLEAN
    /\ max_blocks \in Caps
    /\ pc = "start"
    /\ blocks = {}
    /\ current_entrance = 0
    /\ placements = 1
    /\ shortest_paths_by_region = <<>>
    /\ report = <<>>
    /\ last = NoEntry
    /\ steps = 0
    /\ query = NoQuery

tileset == Tileset(grid, entrances_by_region)

\* let tileset = Tileset::new(map.grid); then the strategy is chosen
NewTileset ==
    /\ pc = "start"
    /\ entrances_by_region' = Tileset_new(grid).entrances_by_region
    /\ grid' = Tileset_new(grid).grid
    /\ pc' = IF prioritize THEN "priority_init" ELSE "round_robin"
    /\ UNCHANGED <<steps, map_grid, diagonals, prioritize, max_blocks, blocks, current_entrance,
                   placements, shortest_paths_by_region, report, last, query>>

\* round-robin: the while condition fails
RoundRobinCap ==
    /\ pc = "round_robin"
    /\ ~below_cap(max_blocks, blocks)
    /\ pc' = "built"
    /\ last' = [NoEntry EXCEPT !.kind = "cap", !.before = blocks]
    /\ grid' = borrowed(grid, blocks)
    /\ UNCHANGED <<steps, map_grid, entrances_by_region, diagonals, prioritize, max_blocks, blocks,
                   current_entrance, placements, shortest_paths_by_region, report, query>>

\* round-robin: break, a whole cycle placed nothing
RoundRobinBreak ==
    /\ pc = "round_robin"
    /\ below_cap(max_blocks, blocks)
    /\ ~sub_overflows(Len(entrances_by_region))
    /\ next_entrance(current_entrance, placements, Len(entrances_by_region)).break
    /\ pc' = "built"
    /\ last' = [NoEntry EXCEPT !.kind = "break", !.before = blocks]
    /\ grid' = borrowed(grid, blocks)
    /\ UNCHANGED <<steps, map_grid, entrances_by_region, diagonals, prioritize, max_blocks, blocks,
                   current_entrance, placements, shortest_paths_by_region, report, query>>

\* round-robin: one iteration that reaches the placement search
RoundRobinIteration ==
    /\ pc = "round_robin"
    /\ steps < MaxSteps
    /\ steps' = steps + 1
    /\ below_cap(max_blocks, blocks)
    /\ IF sub_overflows(Len(entrances_by_region))
       THEN \* checked: the subtraction panics; wrapped: current_entrance < usize::MAX,
            \* so entrance = current_entrance + 1 and entrances_by_region[entrance] panics
            /\ \E overflow_checks \in BOOLEAN :
                   current_entrance' = IF overflow_checks
                                       THEN current_entrance
                                       ELSE current_entrance + 1
            /\ pc' = "panicked"
            /\ placements' = placements
            /\ blocks' = blocks
            /\ last' = [NoEntry EXCEPT !.kind = "panic", !.before = blocks]
       ELSE LET next == next_entrance(current_entrance, placements, Len(entrances_by_region))
                entrance == next.current_entrance
                shortest_path == region_shortest_path(tileset, blocks, entrance, diagonals)
            IN  /\ ~next.break
                /\ current_entrance' = entrance
                /\ IF shortest_path = None
                   THEN \* .expect(VALID_BUILD) panics
                        /\ pc' = "panicked"
                        /\ placements' = next.placements
                        /\ blocks' = blocks
                        /\ last' = [NoEntry EXCEPT !.kind = "panic", !.region = Some(entrance),
                                                   !.before = blocks]
                   ELSE LET found == find_valid_block_placement(tileset, blocks,
                                                                shortest_path[1].path)
                        IN  /\ pc' = "round_robin"
                            /\ IF found = None
                               THEN /\ placements' = next.placements
                                    /\ blocks' = blocks
                               ELSE /\ placements' = next.placements + 1
                                    /\ blocks' = commit(blocks, tileset, found[1], diagonals)
                            /\ last' = [kind |-> IF found = None THEN "no_place" ELSE "place",
                                        region |-> Some(entrance), coord |-> found,
                                        path |-> shortest_path[1].path, before |-> blocks]
    /\ grid' = borrowed(grid, blocks')
    /\ UNCHANGED <<map_grid, entrances_by_region, diagonals, prioritize, max_blocks,
                   shortest_paths_by_region, report, query>>

\* build.blocks.len() >= max, the cap test of the priority loop
cap_reached(max, self_blocks) ==
    IF max = None THEN FALSE ELSE Cardinality(self_blocks) >= max[1]

\* shortest_path_vec.iter().any(|coord| build.blocks.contains(coord))
is_stale(shortest_path_vec, self_blocks) ==
    \E i \in 1..Len(shortest_path_vec) : shortest_path_vec[i] \in self_blocks

\* priority: the map is collected from the shortest paths on the bare grid
PriorityInit ==
    /\ pc = "priority_init"
    /\ LET paths == ShortestPath_from_entrances_to_any_core(tileset, None, diagonals)
       IN  IF \E i \in 1..Len(paths) : paths[i] = None
           THEN \* .expect(VALID_BUILD) panics
                /\ pc' = "panicked"
                /\ shortest_paths_by_region' = <<>>
                /\ last' = [NoEntry EXCEPT !.kind = "panic"]
           ELSE /\ pc' = "priority"
                /\ \E bulk \in BOOLEAN :
                       shortest_paths_by_region' = btree_from_iter(enumerate_paths(paths), bulk)
                /\ last' = [NoEntry EXCEPT !.kind = "init"]
    /\ grid' = borrowed(grid, blocks)
    /\ UNCHANGED <<steps, map_grid, entrances_by_region, diagonals, prioritize, max_blocks, blocks,
                   current_entrance, placements, report, query>>

\* priority: pop_first gives None
PriorityEmpty ==
    /\ pc = "priority"
    /\ shortest_paths_by_region = <<>>
    /\ pc' = "built"
    /\ last' = [NoEntry EXCEPT !.kind = "empty", !.before = blocks]
    /\ grid' = borrowed(grid, blocks)
    /\ UNCHANGED <<steps, map_grid, entrances_by_region, diagonals, prioritize, max_blocks, blocks,
                   current_entrance, placements, shortest_paths_by_region, report, query>>

\* priority: an entry is popped and the cap is found reached
PriorityCap ==
    /\ pc = "priority"
    /\ shortest_paths_by_region # <<>>
    /\ cap_reached(max_blocks, blocks)
    /\ shortest_paths_by_region' = Tail(shortest_paths_by_region)
    /\ pc' = "built"
    /\ last' = [NoEntry EXCEPT !.kind = "cap", !.before = blocks]
    /\ grid' = borrowed(grid, blocks)
    /\ UNCHANGED <<steps, map_grid, entrances_by_region, diagonals, prioritize, max_blocks, blocks,
                   current_entrance, placements, report, query>>

\* priority: the popped path holds a block; it is recomputed and put back
PriorityStale ==
    /\ pc = "priority"
    /\ steps < MaxSteps
    /\ steps' = steps + 1
    /\ shortest_paths_by_region # <<>>
    /\ ~cap_reached(max_blocks, blocks)
    /\ LET popped == Head(shortest_paths_by_region)
           region_index == popped.value
           fresh == region_shortest_path(tileset, blocks, region_index, diagonals)
       IN  /\ is_stale(popped.key.path, blocks)
           /\ IF fresh = None
              THEN /\ pc' = "panicked"
                   /\ shortest_paths_by_region' = Tail(shortest_paths_by_region)
              ELSE /\ pc' = "priority"
                   /\ shortest_paths_by_region' =
                          btree_insert(Tail(shortest_paths_by_region), fresh[1], region_index)
           /\ last' = [kind |-> IF fresh = None THEN "panic" ELSE "stale",
                       region |-> Some(region_index), coord |-> None,
                       path |-> popped.key.path, before |-> blocks]
    /\ grid' = borrowed(grid, blocks)
    /\ UNCHANGED <<map_grid, entrances_by_region, diagonals, prioritize, max_blocks, blocks,
                   current_entrance, placements, report, query>>

\* priority: a placement is tried along the popped path
PriorityIteration ==
    /\ pc = "priority"
    /\ steps < MaxSteps
    /\ steps' = steps + 1
    /\ shortest_paths_by_region # <<>>
    /\ ~cap_reached(max_blocks, blocks)
    /\ LET popped == Head(shortest_paths_by_region)
           region_index == popped.value
           found == find_valid_block_placement(tileset, blocks, popped.key.path)
           committed == commit(blocks, tileset, found[1], diagonals)
           fresh == region_shortest_path(tileset, committed, region_index, diagonals)
       IN  /\ ~is_stale(popped.key.path, blocks)
           /\ IF found = None
              THEN /\ pc' = "priority"
                   /\ blocks' = blocks
                   /\ shortest_paths_by_region' = Tail(shortest_paths_by_region)
              ELSE /\ blocks' = committed
                   /\ IF fresh = None
                      THEN /\ pc' = "panicked"
                           /\ shortest_paths_by_region' = Tail(shortest_paths_by_region)
                      ELSE /\ pc' = "priority"
                           /\ shortest_paths_by_region' =
                                  btree_insert(Tail(shortest_paths_by_region), fresh[1],
                                               region_index)
           /\ last' = [kind |-> IF found = None THEN "no_place" ELSE "place",
                       region |-> Some(region_index), coord |-> found,
                       path |-> popped.key.path, before |-> blocks]
    /\ grid' = borrowed(grid, blocks')
    /\ UNCHANGED <<map_grid, entrances_by_region, diagonals, prioritize, max_blocks,
                   current_entrance, placements, report, query>>

\* .map(|path| path.map(|p| p.len()))
path_lengths(paths) ==
    [i \in 1..Len(paths) |-> IF paths[i] = None THEN None ELSE Some(len(paths[i][1]))]

\* map.shortest_path_length = Some(..): the lengths under the final build
Report ==
    /\ pc = "built"
    /\ report' = path_lengths(
                     ShortestPath_from_entrances_to_any_core(tileset, Some(blocks), diagonals))
    /\ pc' = "reported"
    /\ grid' = borrowed(grid, blocks)
    /\ UNCHANGED <<steps, map_grid, entrances_by_region, diagonals, prioritize, max_blocks, blocks,
                   current_entrance, placements, shortest_paths_by_region, last, query>>

\* map.grid = tileset.grid; build.apply_to(&mut map.grid)
Apply ==
    /\ pc = "reported"
    /\ map_grid' = apply_to(blocks, grid)
    /\ pc' = "done"
    /\ UNCHANGED <<steps, grid, entrances_by_region, diagonals, prioritize, max_blocks, blocks,
                   current_entrance, placements, shortest_paths_by_region, report, last, query>>

Next ==
    \/ NewTileset
    \/ RoundRobinCap
    \/ RoundRobinBreak
    \/ RoundRobinIteration
    \/ PriorityInit
    \/ PriorityEmpty
    \/ PriorityCap
    \/ PriorityStale
    \/ PriorityIteration
    \/ Report
    \/ Apply

Spec == Init /\ [][Next]_vars

-----------------------------------------------------------------------------
(* The pure functions, applied to drawn inputs: a grid, an overlay (or no  *)
(* overlay), the diagonals flag, and per query a start, a start distance,  *)
(* a target tile or a spawn region                                         *)

\* the sets of at most k elements of S
RECURSIVE UpTo(_, _)
UpTo(S, k) ==
    IF k = 0
    THEN {{}}
    ELSE LET smaller == UpTo(S, k - 1)
         IN  smaller \cup {T \cup {c} : T \in smaller, c \in S}

\* build: Option<&impl Container<Coordinate>>
Overlays(g) == {None} \cup {Some(overlay) : overlay \in UpTo(Coords(g), MaxOverlay)}

\* start_distance: absent, or the distance of the start from the cell (0, 0)
StartDistances(start) == {None, Some(distance_from(start, Coordinate(0, 0)))}

\* the target kinds queried: a region kind, a passable kind, and the kind only an overlay makes
Targets == {Core, Empty, Block}

QueryInit ==
    /\ grid \in Grids
    /\ map_grid = None
    /\ entrances_by_region = Tileset_new(grid).entrances_by_region
    /\ diagonals \in BOOLEAN
    /\ prioritize = FALSE
    /\ max_blocks = None
    /\ pc = "query"
    /\ \E build \in Overlays(grid) :
           /\ blocks = IF build = None THEN {} ELSE build[1]
           /\ query = [kind |-> "pending", build |-> build]
    /\ current_entrance = 0
    /\ placements = 1
    /\ shortest_paths_by_region = <<>>
    /\ report = <<>>
    /\ last = NoEntry
    /\ steps = 0

\* ShortestPath::from_grid_coordinate_to_tile
QueryPath ==
    /\ pc = "query"
    /\ query.kind = "pending"
    /\ \E start \in Coords(grid), end_point \in Targets :
       \E start_distance \in StartDistances(start) :
           query' = [kind |-> "path", build |-> query.build, start |-> start,
                     start_distance |-> start_distance, end_point |-> end_point,
                     result |-> from_grid_coordinate_to_tile(grid, query.build, start,
                                    start_distance, end_point, diagonals)]
    /\ grid' = borrowed(grid, blocks)
    /\ UNCHANGED <<steps, map_grid, entrances_by_region, diagonals, prioritize, max_blocks, pc,
                   blocks, current_entrance, placements, shortest_paths_by_region, report,
                   last>>

\* ShortestPath::from_any_grid_coordinate_to_tile on the entrances of one region
QueryAny ==
    /\ pc = "query"
    /\ query.kind = "pending"
    /\ \E region \in 1..Len(entrances_by_region), end_point \in Targets :
           query' = [kind |-> "any", build |-> query.build, region |-> region,
                     end_point |-> end_point,
                     result |-> from_any_grid_coordinate_to_tile(grid, query.build,
                                    entrances_by_region[region], end_point, diagonals)]
    /\ grid' = borrowed(grid, blocks)
    /\ UNCHANGED <<steps, map_grid, entrances_by_region, diagonals, prioritize, max_blocks, pc,
                   blocks, current_entrance, placements, shortest_paths_by_region, report,
                   last>>

\* Adjacent::from_grid_coordinate and Adjacent::from_grid_coordinate_with_build
QueryAdjacent ==
    /\ pc = "query"
    /\ query.kind = "pending"
    /\ \E coord \in Coords(grid) :
           query' = [kind |-> "adjacent", build |-> query.build, coord |-> coord,
                     plain |-> from_grid_coordinate(grid, coord, diagonals),
                     result |-> from_grid_coordinate_with_build(grid, query.build, coord,
                                                                diagonals)]
    /\ grid' = borrowed(grid, blocks)
    /\ UNCHANGED <<steps, map_grid, entrances_by_region, diagonals, prioritize, max_blocks, pc,
                   blocks, current_entrance, placements, shortest_paths_by_region, report,
                   last>>

\* Build::is_valid and Build::find_valid_block_placement along a region's shortest path
QueryValid ==
    /\ pc = "query"
    /\ query.kind = "pending"
    /\ \E region \in 1..Len(entrances_by_region) :
           LET shortest_path == from_any_grid_coordinate_to_tile(grid, Some(blocks),
                                    entrances_by_region[region], Core, diagonals)
           IN  query' = [kind |-> "valid", build |-> query.build, region |-> region,
                         path |-> shortest_path,
                         valid |-> is_valid(tileset, blocks),
                         result |-> IF shortest_path = None
                                    THEN None
                                    ELSE find_valid_block_placement(tileset, blocks,
                                                                    shortest_path[1].path)]
    /\ grid' = borrowed(grid, blocks)
    /\ UNCHANGED <<steps, map_grid, entrances_by_region, diagonals, prioritize, max_blocks, pc,
                   blocks, current_entrance, placements, shortest_paths_by_region, report,
                   last>>

\* Build::apply_to on a Build drawn for it, once and once more
QueryApply ==
    /\ pc = "query"
    /\ query.kind = "pending"
    /\ query.build = None
    /\ \E build \in UpTo(Coords(grid), MaxBuild) :
           /\ blocks' = build
           /\ map_grid' = apply_to(build, grid)
           /\ query' = [kind |-> "apply", build |-> Some(build),
                        twice |-> apply_to(build, apply_to(build, grid))]
    /\ UNCHANGED <<steps, grid, entrances_by_region, diagonals, prioritize, max_blocks, pc,
                   current_entrance, placements, shortest_paths_by_region, report, last>>

\* the paths of two entrances to the core: Ord::cmp on them, and the BTreeMap
\* that both are inserted in as keys
QueryCmp ==
    /\ pc = "query"
    /\ query.kind = "pending"
    /\ \E r \in 1..Len(entrances_by_region), s \in 1..Len(entrances_by_region) :
       \E i \in 1..Len(entrances_by_region[r]), j \in 1..Len(entrances_by_region[s]) :
           LET a == from_grid_coordinate_to_tile(grid, query.build,
                        entrances_by_region[r][i][1], Some(entrances_by_region[r][i][2]),
                        Core, diagonals)
               b == from_grid_coordinate_to_tile(grid, query.build,
                        entrances_by_region[s][j][1], Some(entrances_by_region[s][j][2]),
                        Core, diagonals)
           IN  /\ a # None
               /\ b # None
               /\ query' = [kind |-> "cmp", build |-> query.build, a |-> a[1], b |-> b[1],
                            ordering |-> cmp(a[1], b[1]),
                            map |-> btree_insert(btree_insert(<<>>, a[1], r - 1), b[1], s - 1)]
    /\ grid' = borrowed(grid, blocks)
    /\ UNCHANGED <<steps, map_grid, entrances_by_region, diagonals, prioritize, max_blocks, pc,
                   blocks, current_entrance, placements, shortest_paths_by_region, report,
                   last>>

\* the orders in which a parallel iterator may hand out the items
Orders(items) ==
    {[i \in 1..Len(items) |-> items[order[i]]] :
        order \in {f \in [1..Len(items) -> 1..Len(items)] :
                      \A i, j \in 1..Len(items) : f[i] = f[j] => i = j}}

\* ShortestPath::from_any_grid_coordinate_to_tile on the entrances of one region,
\* with the reduction done in every order and every grouping of the starts
QueryReduce ==
    /\ pc = "query"
    /\ query.kind = "pending"
    /\ \E region \in 1..Len(entrances_by_region) :
           LET start_points == entrances_by_region[region]
               found == flatten([i \in 1..Len(start_points) |->
                            from_grid_coordinate_to_tile(grid, query.build, start_points[i][1],
                                Some(start_points[i][2]), Core, diagonals)])
           IN  query' = [kind |-> "reduce", build |-> query.build, region |-> region,
                         found |-> found,
                         result |-> from_any_grid_coordinate_to_tile(grid, query.build,
                                        start_points, Core, diagonals),
                         grouped |-> reduce_with_grouped(found),
                         reordered |-> UNION {reduce_with_grouped(items) :
                                                 items \in Orders(found)}]
    /\ grid' = borrowed(grid, blocks)
    /\ UNCHANGED <<steps, map_grid, entrances_by_region, diagonals, prioritize, max_blocks, pc,
                   blocks, current_entrance, placements, shortest_paths_by_region, report,
                   last>>

\* ShortestPath::from_entrances_to_any_core
QueryToCore ==
    /\ pc = "query"
    /\ query.kind = "pending"
    /\ query' = [kind |-> "to_core", build |-> query.build,
                 result |-> ShortestPath_from_entrances_to_any_core(tileset, query.build,
                                                                     diagonals)]
    /\ grid' = borrowed(grid, blocks)
    /\ UNCHANGED <<steps, map_grid, entrances_by_region, diagonals, prioritize, max_blocks, pc,
                   blocks, current_entrance, placements, shortest_paths_by_region, report,
                   last>>

\* Tileset::separate_regions for a tile kind
QueryRegions ==
    /\ pc = "query"
    /\ query.kind = "pending"
    /\ query.build = None
    /\ \E start_tile \in Tile :
           query' = [kind |-> "regions", build |-> query.build, tile |-> start_tile,
                     result |-> separate_regions(grid, start_tile)]
    /\ grid' = borrowed(grid, blocks)
    /\ UNCHANGED <<steps, map_grid, entrances_by_region, diagonals, prioritize, max_blocks, pc,
                   blocks, current_entrance, placements, shortest_paths_by_region, report,
                   last>>

\* Coordinate::set with a Block, on a coordinate of the grid or one row or one
\* column beyond it
QuerySet ==
    /\ pc = "query"
    /\ query.kind = "pending"
    /\ query.build = None
    /\ \E x \in 0..Len(grid[1]), y \in 0..Len(grid) :
           query' = [kind |-> "set", build |-> query.build, coord |-> Coordinate(x, y),
                     result |-> set(Coordinate(x, y), grid, Block)]
    /\ grid' = borrowed(grid, blocks)
    /\ UNCHANGED <<steps, map_grid, entrances_by_region, diagonals, prioritize, max_blocks, pc,
                   blocks, current_entrance, placements, shortest_paths_by_region, report,
                   last>>

\* a tile read, an adjacency and a search from one start under the build, and
\* the same with no build on the grid build.apply_to has written the blocks into
QueryOverlay ==
    /\ pc = "query"
    /\ query.kind = "pending"
    /\ query.build # None
    /\ \E coord \in Coords(grid), end_point \in Targets :
       \E start_distance \in StartDistances(coord) :
           LET applied == apply_to(blocks, grid)
           IN  query' =
                   [kind |-> "overlay", build |-> query.build, coord |-> coord,
                    start_distance |-> start_distance, end_point |-> end_point,
                    applied |-> applied,
                    tile |-> get_from_with_build(coord, grid, query.build),
                    applied_tile |-> get_from_with_build(coord, applied, None),
                    adjacent |-> from_grid_coordinate_with_build(grid, query.build, coord,
                                                                 diagonals),
                    applied_adjacent |-> from_grid_coordinate_with_build(applied, None, coord,
                                                                         diagonals),
                    path |-> from_grid_coordinate_to_tile(grid, query.build, coord,
                                 start_distance, end_point, diagonals),
                    applied_path |-> from_grid_coordinate_to_tile(applied, None, coord,
                                         start_distance, end_point, diagonals)]
    /\ grid' = borrowed(grid, blocks)
    /\ UNCHANGED <<steps, map_grid, entrances_by_region, diagonals, prioritize, max_blocks, pc,
                   blocks, current_entrance, placements, shortest_paths_by_region, report,
                   last>>

\* the per-region searches and the lengths App::run reports under the build,
\* and the same with no build on the grid build.apply_to has written the blocks into
QueryOverlayRegions ==
    /\ pc = "query"
    /\ query.kind = "pending"
    /\ query.build # None
    /\ \E end_point \in Targets :
           LET applied == apply_to(blocks, grid)
               regions == 1..Len(entrances_by_region)
           IN  query' =
                   [kind |-> "overlay_regions", build |-> query.build,
                    end_point |-> end_point, applied |-> applied,
                    any |-> [r \in regions |->
                                from_any_grid_coordinate_to_tile(grid, query.build,
                                    entrances_by_region[r], end_point, diagonals)],
                    applied_any |-> [r \in regions |->
                                        from_any_grid_coordinate_to_tile(applied, None,
                                            entrances_by_region[r], end_point, diagonals)],
                    lengths |-> path_lengths(ShortestPath_from_entrances_to_any_core(
                                    tileset, query.build, diagonals)),
                    applied_lengths |-> path_lengths(ShortestPath_from_entrances_to_any_core(
                                            Tileset(applied, entrances_by_region), None,
                                            diagonals))]
    /\ grid' = borrowed(grid, blocks)
    /\ UNCHANGED <<steps, map_grid, entrances_by_region, diagonals, prioritize, max_blocks, pc,
                   blocks, current_entrance, placements, shortest_paths_by_region, report,
                   last>>

QueryNext ==
    \/ QueryPath
    \/ QueryAny
    \/ QueryAdjacent
    \/ QueryValid
    \/ QueryApply
    \/ QueryCmp
    \/ QueryReduce
    \/ QueryToCore
    \/ QueryRegions
    \/ QuerySet
    \/ QueryOverlay
    \/ QueryOverlayRegions

SpecQuery == QueryInit /\ [][QueryNext]_vars

-----------------------------------------------------------------------------
(* Tileset::entrances and Tileset::exits: get_adjacent_to from a cell of a  *)
(* region, on the grids above and on the map Park                          *)

\* the map Park of the tests
PARK ==
    LET E == Empty
        I == Impass
        P == Pass
        S == Spawn
        C == Core
    IN  << <<I, I, I, I, I, I, I, I, I, I, I, E, E, E, E, E>>,
           <<P, P, P, P, E, E, E, E, E, I, I, E, E, E, E, E>>,
           <<S, P, P, P, E, E, E, E, E, I, I, E, E, E, E, E>>,
           <<P, P, P, P, E, E, E, E, E, E, E, E, E, E, E, E>>,
           <<P, P, P, P, E, E, E, E, E, E, E, E, E, E, E, E>>,
           <<I, I, I, I, E, E, E, E, E, E, E, E, E, E, E, E>>,
           <<I, I, I, I, E, E, E, E, E, E, E, E, E, E, E, E>>,
           <<I, I, I, I, E, E, E, E, E, E, E, E, E, E, E, E>>,
           <<I, I, I, I, E, E, E, E, E, E, E, E, E, E, E, E>>,
           <<I, I, I, I, E, E, E, E, E, E, E, E, E, E, I, E>>,
           <<I, I, I, I, P, P, P, P, E, E, E, E, E, E, E, E>>,
           <<I, I, I, I, P, C, C, P, E, E, E, E, E, E, E, E>>,
           <<I, I, I, I, P, C, C, P, E, E, E, E, E, E, I, E>>,
           <<I, I, I, I, P, P, P, P, E, E, E, E, E, E, E, E>> >>

EntrancesInit ==
    /\ grid \in Grids \cup {PARK}
    /\ map_grid = None
    /\ entrances_by_region = <<>>
    /\ diagonals = FALSE
    /\ prioritize = FALSE
    /\ max_blocks = None
    /\ pc = "query"
    /\ blocks = {}
    /\ query = [kind |-> "pending", build |-> None]
    /\ current_entrance = 0
    /\ placements = 1
    /\ shortest_paths_by_region = <<>>
    /\ report = <<>>
    /\ last = NoEntry
    /\ steps = 0

\* the kinds looked for: Empty, as entrances and exits do, and on the small
\* grids every other kind too
Needles(g) == IF g = PARK THEN {Empty} ELSE Tile

\* separate_regions(kind), then get_adjacent_to from "a random point on the
\* region": any of its cells
QueryAdjacentTo ==
    /\ pc = "query"
    /\ query.kind = "pending"
    /\ \E start_tile \in {Spawn, Core}, needle \in Needles(grid) :
           LET regions == separate_regions(grid, start_tile).value
           IN  \E region \in 1..Len(regions) :
               \E start \in regions[region] :
                   query' = [kind |-> "adjacent_to", build |-> None, tile |-> start_tile,
                             regions |-> regions, region |-> region, start |-> start,
                             needle |-> needle,
                             result |-> get_adjacent_to(grid, start, needle)]
    /\ UNCHANGED <<steps, grid, map_grid, entrances_by_region, diagonals, prioritize,
                   max_blocks, pc, blocks, current_entrance, placements,
                   shortest_paths_by_region, report, last>>

EntrancesNext == QueryAdjacentTo

SpecEntrances == EntrancesInit /\ [][EntrancesNext]_vars

-----------------------------------------------------------------------------
(* What the properties below are stated in: the tiles, the moves and the   *)
(* distances of the grid, defined apart from the search that is checked    *)

PassableTiles == {"Empty", "Pass"}

InBounds(c, g) == c[1] \in 0..(Len(g[1]) - 1) /\ c[2] \in 0..(Len(g) - 1)

\* the tile of an in-bounds cell read through the overlay
TileUnder(c, g, build) ==
    IF build = None
    THEN g[c[2] + 1][c[1] + 1]
    ELSE IF c \in build[1] THEN "Block" ELSE g[c[2] + 1][c[1] + 1]

PassableUnder(c, g, build) ==
    IF InBounds(c, g) THEN TileUnder(c, g, build) \in PassableTiles ELSE FALSE

Abs(n) == IF n < 0 THEN 0 - n ELSE n

\* b is a neighbour of a: an orthogonal step, or with diagonals a diagonal step
\* whose two flanking orthogonal cells are not both non-passable
Move(a, b, g, build, diag) ==
    LET dx == b[1] - a[1]
        dy == b[2] - a[2]
    IN  /\ InBounds(b, g)
        /\ \/ Abs(dx) + Abs(dy) = 1
           \/ /\ diag
              /\ Abs(dx) = 1
              /\ Abs(dy) = 1
              /\ \/ PassableUnder(<<a[1] + dx, a[2]>>, g, build)
                 \/ PassableUnder(<<a[1], a[2] + dy>>, g, build)

\* the least number of moves of a walk from start that continues only through
\* passable cells and ends on a cell of kind target; -1 when there is none
RECURSIVE Expand(_, _, _, _, _, _)
Expand(reached, k, target, g, build, diag) ==
    IF \E c \in reached : TileUnder(c, g, build) = target
    THEN k
    ELSE LET next == reached \cup
                     {b \in Coords(g) : \E a \in reached :
                         PassableUnder(a, g, build) /\ Move(a, b, g, build, diag)}
         IN  IF next = reached THEN 0 - 1 ELSE Expand(next, k + 1, target, g, build, diag)

MinMoves(start, target, g, build, diag) == Expand({start}, 0, target, g, build, diag)

\* path is a walk from one of starts to a cell of kind target
IsWalk(path, starts, target, g, build, diag) ==
    /\ Len(path) >= 1
    /\ path[1] \in starts
    /\ \A i \in 1..(Len(path) - 1) :
           /\ PassableUnder(path[i], g, build)
           /\ build # None => path[i] \notin build[1]
           /\ Move(path[i], path[i + 1], g, build, diag)
    /\ InBounds(path[Len(path)], g)
    /\ TileUnder(path[Len(path)], g, build) = target
    /\ (build # None /\ target # "Block") => path[Len(path)] \notin build[1]

\* the coordinates of a region's entrance map
EntranceSet(entrances) == {entrances[i][1] : i \in 1..Len(entrances)}

\* some entrance of every spawn region has an orthogonal walk to a Core under the overlay
Connected(g, overlay) ==
    LET regions == Tileset_new(g).entrances_by_region
    IN  \A r \in 1..Len(regions) :
            \E e \in EntranceSet(regions[r]) :
                /\ PassableUnder(e, g, Some(overlay))
                /\ MinMoves(e, "Core", g, Some(overlay), FALSE) >= 0

\* every spawn region of the input reaches a Core
InputValid == Connected(grid, {})

\* the input has a spawn region
HasSpawn == Len(Tileset_new(grid).entrances_by_region) >= 1

Running == pc \in {"round_robin", "priority_init", "priority", "built", "reported", "done"}

\* the per-region len under a block set, as the driver computes it
Lens(overlay) ==
    path_lengths(ShortestPath_from_entrances_to_any_core(tileset, Some(overlay), diagonals))

-----------------------------------------------------------------------------
(* Properties *)

\* C1: from a valid input, after every loop iteration of either strategy and at
\* the end of the run, every spawn region has an entrance with an orthogonal
\* path to a Core under the Build as overlay; so has the Build right after a
\* commit, before the pruning pass.
ValidityPreserved ==
    (InputValid /\ Running) =>
        /\ Connected(grid, blocks)
        /\ last.kind = "place" => Connected(grid, last.before \cup {last.coord[1]})

ValidityPreservedWitness ==
    /\ pc = "built"
    /\ InputValid
    /\ Len(entrances_by_region) = 2
    /\ Cardinality(blocks) >= 3
    /\ \E c \in Coords(grid) \ blocks :
           TileUnder(c, grid, None) = "Empty" /\ ~Connected(grid, blocks \cup {c})

\* C2: with max_blocks = N the Build never holds more than N blocks, neither
\* between iterations nor right after a commit, and so not when it is returned.
BlockCapHonoured ==
    max_blocks # None =>
        /\ Cardinality(blocks) <= max_blocks[1]
        /\ last.kind = "place" => Cardinality(last.before \cup {last.coord[1]}) <= max_blocks[1]

BlockCapHonouredWitness ==
    /\ pc = "built"
    /\ last.kind = "cap"
    /\ max_blocks = Some(2)
    /\ Cardinality(blocks) = 2

\* C3: on a valid input no step of a strategy lowers the len of a region's
\* shortest path, and the len under the returned Build is at least the len on
\* the grid without blocks.
PathMonotone ==
    /\ [][(InputValid /\ pc \in {"round_robin", "priority"}) =>
            \A r \in 1..Len(entrances_by_region) : Lens(blocks')[r][1] >= Lens(blocks)[r][1]]_vars
    /\ []((InputValid /\ pc \in {"built", "reported", "done"}) =>
            \A r \in 1..Len(entrances_by_region) : Lens(blocks)[r][1] >= Lens({})[r][1])

PathMonotoneWitness ==
    /\ pc = "built"
    /\ InputValid
    /\ diagonals
    /\ Len(entrances_by_region) = 2
    /\ \A r \in 1..Len(entrances_by_region) : Lens(blocks)[r][1] > Lens({})[r][1]

\* C4: from a passable start, from_grid_coordinate_to_tile returns a walk to a
\* cell of the target kind with the least number of moves over the overlay-aware
\* moves, and returns None exactly when there is no such walk.
BfsOptimal ==
    (query.kind = "path" /\ PassableUnder(query.start, grid, query.build)) =>
        LET least == MinMoves(query.start, query.end_point, grid, query.build, diagonals)
        IN  IF least < 0
            THEN query.result = None
            ELSE /\ query.result # None
                 /\ Len(query.result[1].path) - 1 = least
                 /\ IsWalk(query.result[1].path, {query.start}, query.end_point, grid,
                           query.build, diagonals)

\* a block of the overlay forces a longer way, taken with a diagonal step
BfsOptimalWitness ==
    /\ query.kind = "path"
    /\ diagonals
    /\ blocks # {}
    /\ query.end_point = "Core"
    /\ query.result # None
    /\ Len(query.result[1].path) - 1 > MinMoves(query.start, "Core", grid, None, TRUE)
    /\ \E i \in 1..(Len(query.result[1].path) - 1) :
           Abs(query.result[1].path[i + 1][1] - query.result[1].path[i][1])
           + Abs(query.result[1].path[i + 1][2] - query.result[1].path[i][2]) = 2

\* the reason the strategy gave for returning: the cap is reached, a whole
\* round-robin cycle placed nothing, or the priority map is empty
ExitReason ==
    \/ /\ last.kind = "cap"
       /\ max_blocks # None
       /\ Cardinality(blocks) >= max_blocks[1]
    \/ /\ last.kind = "break"
       /\ ~prioritize
       /\ placements = 0
       /\ current_entrance = Len(entrances_by_region) - 1
    \/ /\ last.kind = "empty"
       /\ prioritize
       /\ shortest_paths_by_region = <<>>

\* the Empty cells of the grid: the cells a block can ever be put on
EmptyCells == {c \in Coords(grid) : TileUnder(c, grid, None) = "Empty"}

\* a cycle over the regions places a block or is the last one, and a block
\* goes on an Empty cell
IterationBound == (Len(entrances_by_region) + 1) * (Cardinality(EmptyCells) + 1)

\* C5: on an input whose spawn regions all reach a Core, both strategies, with
\* or without a cap, return a Build after a bounded number of loop iterations,
\* never failing, and return only because the cap is reached, a whole
\* round-robin cycle placed nothing, or the priority map is empty.
Termination ==
    InputValid =>
        /\ pc # "panicked"
        /\ steps <= IterationBound
        /\ pc = "built" => ExitReason

\* what holds of the inputs with a spawn region: the statement above, the
\* iteration before a round-robin break placed no block, and every commit,
\* pruning pass included, ends with a Build inside the blocks it started from
TerminationWithSpawn ==
    /\ []((HasSpawn /\ InputValid) => (steps <= IterationBound /\ pc # "panicked"))
    /\ []((HasSpawn /\ InputValid /\ pc = "built") => ExitReason)
    /\ [][(InputValid /\ pc = "round_robin" /\ pc' = "built" /\ last'.kind = "break") =>
            last.kind = "no_place"]_vars
    /\ []((InputValid /\ Running /\ last.kind = "place") =>
            blocks \subseteq last.before \cup {last.coord[1]})

TerminationWithSpawnWitness ==
    /\ pc = "built"
    /\ InputValid
    /\ max_blocks = None
    /\ last.kind = "break"
    /\ Len(entrances_by_region) = 2
    /\ Cardinality(blocks) >= 2

\* the spawn regions (1-based) without a path to a Core on the grid without blocks
Pathless ==
    {r \in 1..Len(entrances_by_region) :
        \A e \in EntranceSet(entrances_by_region[r]) :
            MinMoves(e, "Core", grid, None, diagonals) < 0}

\* C6: when some spawn region reaches no Core on the input grid, the run does
\* not fail, and the report it gives holds an absent entry for every such region.
UnreachableCoreTolerated ==
    (pc # "start" /\ Pathless # {}) =>
        /\ pc # "panicked"
        /\ pc \in {"reported", "done"} =>
               /\ Len(report) = Len(entrances_by_region)
               /\ \A r \in Pathless : report[r] = None

ApplyFrame ==
    query.kind = "apply" =>
        /\ map_grid # Panicked
        /\ Len(map_grid) = Len(grid)
        /\ \A y \in 1..Len(grid) : Len(map_grid[y]) = Len(grid[y])
        /\ \A c \in Coords(grid) :
               TileUnder(c, map_grid, None)
                   = IF c \in blocks THEN "Block" ELSE TileUnder(c, grid, None)
        /\ query.twice = map_grid

\* a Build of two cells off the diagonal of the grid, one of them not Empty
ApplyFrameWitness ==
    /\ query.kind = "apply"
    /\ Cardinality(blocks) = 2
    /\ \A c \in blocks : c[1] # c[2]
    /\ \E c \in blocks : TileUnder(c, grid, None) # "Empty"
    /\ \E c \in blocks : TileUnder(c, grid, None) = "Empty"
    /\ map_grid # grid

\* the eight slots of an Adjacent and the step each one stands for
Offsets ==
    [up |-> <<0, 0 - 1>>, right |-> <<1, 0>>, down |-> <<0, 1>>, left |-> <<0 - 1, 0>>,
     up_right |-> <<1, 0 - 1>>, down_right |-> <<1, 1>>,
     down_left |-> <<0 - 1, 1>>, up_left |-> <<0 - 1, 0 - 1>>]

Orthogonal == {"up", "right", "down", "left"}

\* the cell a slot of coord points at
SlotCell(coord, slot) == <<coord[1] + Offsets[slot][1], coord[2] + Offsets[slot][2]>>

\* both orthogonal cells flanking the diagonal step of a slot are non-passable under the overlay
CornerClosed(coord, slot, g, build) ==
    /\ ~PassableUnder(<<coord[1] + Offsets[slot][1], coord[2]>>, g, build)
    /\ ~PassableUnder(<<coord[1], coord[2] + Offsets[slot][2]>>, g, build)

\* C9: an orthogonal slot is present iff its cell is in bounds; a diagonal slot
\* is present iff diagonals are enabled, its cell is in bounds and, in the
\* overlay-aware variant, its two flanking cells are not both non-passable under
\* the overlay; a present slot holds its cell.
AdjacencyCornerRule ==
    query.kind = "adjacent" =>
        \A slot \in DOMAIN Offsets :
            LET cell == SlotCell(query.coord, slot)
            IN  IF slot \in Orthogonal
                THEN /\ query.plain[slot] = (IF InBounds(cell, grid) THEN Some(cell) ELSE None)
                     /\ query.result[slot] = query.plain[slot]
                ELSE /\ query.plain[slot]
                            = (IF diagonals /\ InBounds(cell, grid) THEN Some(cell) ELSE None)
                     /\ query.result[slot]
                            = (IF /\ diagonals
                                  /\ InBounds(cell, grid)
                                  /\ ~CornerClosed(query.coord, slot, grid, query.build)
                               THEN Some(cell)
                               ELSE None)

\* a diagonal slot closed by a block of the overlay and a tile of the grid,
\* beside a diagonal slot left open with one flank non-passable
AdjacencyCornerRuleWitness ==
    /\ query.kind = "adjacent"
    /\ diagonals
    /\ \E slot \in DOMAIN Offsets \ Orthogonal :
           /\ query.plain[slot] # None
           /\ query.result[slot] = None
           /\ \E flank \in blocks :
                  /\ TileUnder(flank, grid, None) = "Empty"
                  /\ flank \in {<<query.coord[1] + Offsets[slot][1], query.coord[2]>>,
                                <<query.coord[1], query.coord[2] + Offsets[slot][2]>>}
    /\ \E slot \in DOMAIN Offsets \ Orthogonal :
           /\ query.result[slot] # None
           /\ \/ ~PassableUnder(<<query.coord[1] + Offsets[slot][1], query.coord[2]>>,
                                grid, query.build)
              \/ ~PassableUnder(<<query.coord[1], query.coord[2] + Offsets[slot][2]>>,
                                grid, query.build)

\* C10: a path returned by from_grid_coordinate_to_tile or by
\* from_any_grid_coordinate_to_tile is non-empty, begins at the start (at one of
\* the start points), leaves only cells that are passable under the overlay and
\* so not in it, moves by overlay-aware neighbour steps (no diagonal between two
\* non-passable flanks, no diagonal at all with diagonals disabled) and ends on
\* a cell whose tile under the overlay is the target kind.
PathWellFormed ==
    /\ (query.kind = "path" /\ query.result # None) =>
           IsWalk(query.result[1].path, {query.start}, query.end_point, grid,
                  query.build, diagonals)
    /\ (query.kind = "any" /\ query.result # None) =>
           IsWalk(query.result[1].path, EntranceSet(entrances_by_region[query.region]),
                  query.end_point, grid, query.build, diagonals)

\* a path from a region's entrances that goes round a block of the overlay
\* with a diagonal step past one non-passable flank
PathWellFormedWitness ==
    /\ query.kind = "any"
    /\ diagonals
    /\ blocks # {}
    /\ query.end_point = "Core"
    /\ query.result # None
    /\ LET path == query.result[1].path
       IN  /\ Len(path) >= 3
           /\ \E i \in 1..(Len(path) - 1) :
                  /\ Abs(path[i + 1][1] - path[i][1]) = 1
                  /\ Abs(path[i + 1][2] - path[i][2]) = 1
                  /\ \/ <<path[i + 1][1], path[i][2]>> \in blocks
                     \/ <<path[i][1], path[i + 1][2]>> \in blocks

\* C11: the ordering of ShortestPath is total and looks at the contents: two
\* values are compared by len first and, at equal len, by their coordinate
\* sequences, so they compare as equal only when they are equal values, and
\* two distinct paths of equal len are both keys of the map they are inserted in
OrderingContentAware ==
    (pc = "query" /\ query.kind = "cmp") =>
        /\ query.ordering \in {"Less", "Equal", "Greater"}
        /\ (query.ordering = "Equal" => query.a = query.b)
        /\ (query.a # query.b =>
               /\ Len(query.map) = 2
               /\ {query.map[k].key : k \in 1..2} = {query.a, query.b})

\* two distinct paths of equal len were compared
OrderingContentAwareWitness ==
    /\ pc = "query"
    /\ query.kind = "cmp"
    /\ query.a # query.b
    /\ len(query.a) = len(query.b)

\* C12: a round-robin run without diagonals and without a cap returns a Build
\* of which no single block can be taken away without changing the len of the
\* shortest path of at least one spawn region
NonReducible ==
    (pc = "built" /\ ~prioritize /\ ~diagonals /\ max_blocks = None) =>
        \A block \in blocks : Lens(blocks \ {block}) # Lens(blocks)

\* such a run returned a Build with blocks
NonReducibleWitness ==
    /\ pc = "built"
    /\ ~prioritize
    /\ ~diagonals
    /\ max_blocks = None
    /\ blocks # {}

\* C13: round-robin works on the regions cyclically in index order, starting
\* with region 0: with n regions, n >= 1, the k-th iteration of the loop works
\* on region (k - 1) mod n, which gives every region at most one placement
\* attempt in a cycle
RoundRobinOrder ==
    (~prioritize /\ pc \in {"round_robin", "panicked"} /\ last.region # None
        /\ Len(entrances_by_region) >= 1) =>
        last.region[1] = (steps - 1) % Len(entrances_by_region)

\* the first iteration on an input of two regions has worked on a region
RoundRobinOrderWitness ==
    /\ ~prioritize
    /\ pc = "round_robin"
    /\ Len(entrances_by_region) = 2
    /\ steps = 1
    /\ last.region # None

ReductionGroupingIndependent ==
    (pc = "query" /\ query.kind = "reduce") => query.grouped = {query.result}

\* the starts of the queried region
QueryStarts == entrances_by_region[query.region]

\* the least number of cells of a walk from the i-th start to the queried
\* target kind; -1 when the start is not passable or no walk exists
RawCells(i) ==
    IF ~PassableUnder(QueryStarts[i][1], grid, query.build)
    THEN 0 - 1
    ELSE LET least == MinMoves(QueryStarts[i][1], query.end_point, grid, query.build,
                               diagonals)
         IN  IF least < 0 THEN 0 - 1 ELSE least + 1

\* the starts that have a path
WithPath == {i \in 1..Len(QueryStarts) : RawCells(i) >= 0}

\* C15: from_any_grid_coordinate_to_tile returns a path of one of the starts
\* whose len, cells plus start distance, is the least over the starts that have
\* a path, and returns None exactly when no start has a path; a start with
\* fewer cells and a greater start distance loses to one with a smaller sum
MultiStartMinimum ==
    (pc = "query" /\ query.kind = "any") =>
        IF WithPath = {}
        THEN query.result = None
        ELSE /\ query.result # None
             /\ query.result[1].start_distance # None
             /\ \A i \in WithPath :
                    Len(query.result[1].path) + query.result[1].start_distance[1]
                        <= RawCells(i) + QueryStarts[i][2]
             /\ \E i \in WithPath :
                    /\ query.result[1].path[1] = QueryStarts[i][1]
                    /\ query.result[1].start_distance = Some(QueryStarts[i][2])
                    /\ Len(query.result[1].path) = RawCells(i)

\* a start with fewer cells and a greater start distance lost to the start of the result
MultiStartMinimumWitness ==
    /\ pc = "query"
    /\ query.kind = "any"
    /\ query.result # None
    /\ \E i \in WithPath :
           /\ RawCells(i) < Len(query.result[1].path)
           /\ QueryStarts[i][2] > query.result[1].start_distance[1]
           /\ RawCells(i) + QueryStarts[i][2]
                  > Len(query.result[1].path) + query.result[1].start_distance[1]

\* no start of the region has a path and the result is None
MultiStartNoneWitness ==
    /\ pc = "query"
    /\ query.kind = "any"
    /\ Len(QueryStarts) >= 1
    /\ WithPath = {}
    /\ query.result = None

\* C16: from_entrances_to_any_core returns one element for each spawn region,
\* in the order of the regions, and the element of region i is what
\* from_any_grid_coordinate_to_tile returns for the entrance map of region i,
\* the target Core, the same overlay and the same diagonals setting: a path,
\* if any, that starts on an entrance of region i
PerRegionAlignment ==
    (pc = "query" /\ query.kind = "to_core") =>
        /\ Len(query.result) = Len(entrances_by_region)
        /\ \A i \in 1..Len(entrances_by_region) :
               /\ query.result[i] =
                      from_any_grid_coordinate_to_tile(grid, query.build,
                          entrances_by_region[i], Core, diagonals)
               /\ query.result[i] # None =>
                      \E e \in 1..Len(entrances_by_region[i]) :
                          /\ query.result[i][1].path[1] = entrances_by_region[i][e][1]
                          /\ query.result[i][1].start_distance
                                 = Some(entrances_by_region[i][e][2])
                          /\ Len(query.result[i][1].path) - 1
                                 = MinMoves(entrances_by_region[i][e][1], Core, grid,
                                            query.build, diagonals)

\* two regions whose results differ, one of them a path and one of them None
PerRegionAlignmentWitness ==
    /\ pc = "query"
    /\ query.kind = "to_core"
    /\ Len(query.result) = 2
    /\ query.result[1] # None
    /\ query.result[2] = None

\* the cells of a kind
CellsOf(kind, g) == {c \in Coords(g) : g[c[2] + 1][c[1] + 1] = kind}

\* the cells of the kind of the cells of start that orthogonal steps through
\* cells of that kind reach
RECURSIVE Grow(_, _, _)
Grow(reached, kind, g) ==
    LET next == reached \cup
                {b \in CellsOf(kind, g) :
                    \E a \in reached : Abs(a[1] - b[1]) + Abs(a[2] - b[2]) = 1}
    IN  IF next = reached THEN reached ELSE Grow(next, kind, g)

\* the place of a cell in the row-major scan
ScanIndex(c, g) == c[2] * Len(g[1]) + c[1]

\* the first cell of a non-empty set of cells in the row-major scan
FirstMet(cells, g) == CHOOSE c \in cells : \A d \in cells : ScanIndex(c, g) <= ScanIndex(d, g)

\* C17: for Spawn and for Core, separate_regions returns non-empty, pairwise
\* disjoint sets of coordinates whose union is the set of the cells of that
\* kind, each of them a maximal 4-connected set of such cells, listed in the
\* order in which the row-major scan first meets a cell of each
RegionsPartition ==
    (pc = "query" /\ query.kind = "regions" /\ query.tile \in {"Spawn", "Core"}) =>
        /\ query.result.is_ok
        /\ LET regions == query.result.value
           IN  /\ \A i \in 1..Len(regions) : regions[i] # {}
               /\ \A i, j \in 1..Len(regions) : i # j => regions[i] \cap regions[j] = {}
               /\ UNION {regions[i] : i \in 1..Len(regions)} = CellsOf(query.tile, grid)
               /\ \A i \in 1..Len(regions) :
                      \A c \in regions[i] : regions[i] = Grow({c}, query.tile, grid)
               /\ \A i, j \in 1..Len(regions) :
                      i < j => ScanIndex(FirstMet(regions[i], grid), grid)
                                  < ScanIndex(FirstMet(regions[j], grid), grid)

\* three regions, one of more than one cell, two that touch at a corner
RegionsPartitionWitness ==
    /\ pc = "query"
    /\ query.kind = "regions"
    /\ query.tile = "Spawn"
    /\ query.result.is_ok
    /\ Len(query.result.value) = 3
    /\ \E i \in 1..3 : Cardinality(query.result.value[i]) = 2
    /\ \E i, j \in 1..3 :
           \E c \in query.result.value[i], d \in query.result.value[j] :
               i # j /\ Abs(c[1] - d[1]) = 1 /\ Abs(c[2] - d[2]) = 1

\* C19: for Block, Empty, Impass and Pass, separate_regions returns the error
\* NotRegion that carries the tile asked for, and no regions; for Spawn and
\* for Core it returns regions
NotRegionError ==
    (pc = "query" /\ query.kind = "regions") =>
        IF query.tile \in {"Block", "Empty", "Impass", "Pass"}
        THEN query.result = [is_ok |-> FALSE,
                             error |-> [kind |-> "NotRegion", tile |-> query.tile]]
        ELSE /\ query.tile \in {"Spawn", "Core"}
             /\ query.result.is_ok
             /\ DOMAIN query.result = {"is_ok", "value"}

\* the regions of Pass were asked for on a grid that has Pass cells
NotRegionErrorWitness ==
    /\ pc = "query"
    /\ query.kind = "regions"
    /\ query.tile = "Pass"
    /\ CellsOf("Pass", grid) # {}
    /\ ~query.result.is_ok

\* a walk goes on beyond a cell of the region's kind, and beyond a passable
\* cell that is not of the kind looked for: for Empty looked for, beyond Pass
WalksOn(c, kind, needle, g) ==
    \/ g[c[2] + 1][c[1] + 1] = kind
    \/ (g[c[2] + 1][c[1] + 1] \in PassableTiles /\ g[c[2] + 1][c[1] + 1] # needle)

\* the cells that orthogonal steps reach from reached when every cell stepped
\* from is one the walk goes on beyond
RECURSIVE Flood(_, _, _, _)
Flood(reached, kind, needle, g) ==
    LET steps_of(a) == {<<a[1] + 1, a[2]>>, <<a[1] - 1, a[2]>>,
                        <<a[1], a[2] + 1>>, <<a[1], a[2] - 1>>}
        next == reached \cup
                {b \in UNION {steps_of(a) : a \in {r \in reached : WalksOn(r, kind, needle, g)}} :
                    InBounds(b, g)}
    IN  IF next = reached THEN reached ELSE Flood(next, kind, needle, g)

EntranceComputationParkWitness ==
    /\ pc = "query"
    /\ query.kind = "adjacent_to"
    /\ grid = PARK
    /\ query.tile = "Spawn"
    /\ query.needle = "Empty"
    /\ Cardinality(query.result) = 4

\* C20: Coordinate::set on a coordinate outside the grid panics, whether it is
\* the row index y or the column index x that is out of range; it never
\* returns with the grid as it was
SetOutOfBoundsPanics ==
    (pc = "query" /\ query.kind = "set" /\ ~InBounds(query.coord, grid)) =>
        query.result = Panicked

\* set was called with a row index out of range
SetOutOfBoundsPanicsWitness ==
    /\ pc = "query"
    /\ query.kind = "set"
    /\ query.coord[2] = Len(grid)
    /\ query.coord[1] < Len(grid[1])

\* set with a column index out of range in a row of the grid panics
SetColumnOutOfBoundsPanics ==
    (pc = "query" /\ query.kind = "set" /\ query.coord[2] < Len(grid)
        /\ query.coord[1] >= Len(grid[1])) =>
        query.result = Panicked

\* the per-region shortest paths under a block set, as the pruning pass compares them
PathsUnder(overlay) ==
    ShortestPath_from_entrances_to_any_core(tileset, Some(overlay), diagonals)

\* b is next to a: an orthogonal neighbour, or with diagonals a diagonal one
NextTo(a, b) ==
    /\ a # b
    /\ Abs(a[1] - b[1]) <= 1
    /\ Abs(a[2] - b[2]) <= 1
    /\ (~diagonals => Abs(a[1] - b[1]) + Abs(a[2] - b[2]) = 1)

\* an iteration of either strategy has just committed a block
Placed == pc \in {"round_robin", "priority", "panicked"} /\ last.kind = "place"

\* the Build right after build.blocks.insert(coord) of the last iteration
Inserted == last.before \cup {last.coord[1]}

\* C21: in the pruning pass run after committing block c, the block that is
\* tentatively removed and compared is the neighbour a of c, not c: c stays,
\* and where c has one neighbour a in the Build, a is left removed exactly
\* when the per-region shortest paths without a equal the expected ones
PruningTestsNeighbour ==
    Placed =>
        /\ last.coord[1] \in blocks
        /\ \A a \in last.before :
               (NextTo(last.coord[1], a)
                   /\ \A b \in last.before : NextTo(last.coord[1], b) => b = a) =>
                   (a \in blocks <=> PathsUnder(Inserted \ {a}) # PathsUnder(Inserted))

\* a block was committed next to one block of the Build that changes no path
PruningTestsNeighbourWitness ==
    /\ Placed
    /\ \E a \in last.before :
           /\ NextTo(last.coord[1], a)
           /\ \A b \in last.before : NextTo(last.coord[1], b) => b = a
           /\ PathsUnder(Inserted \ {a}) = PathsUnder(Inserted)

\* the regions that have an entry in the priority map
MapRegions(m) == {m[i].value : i \in 1..Len(m)}

\* C22: no region is lost from the priority map: after the initialization it
\* holds one entry for each spawn region, and a re-insertion, after a stale
\* path or after a placement, leaves it with an entry for every region it had
\* one for, also when two regions have shortest paths of equal len
NoRegionLost ==
    /\ []((pc = "priority" /\ last.kind = "init") =>
             /\ Len(shortest_paths_by_region) = Len(entrances_by_region)
             /\ MapRegions(shortest_paths_by_region) = 0..(Len(entrances_by_region) - 1))
    /\ [][(pc' = "priority" /\ last'.kind \in {"stale", "place"}) =>
             /\ Len(shortest_paths_by_region') = Len(shortest_paths_by_region)
             /\ MapRegions(shortest_paths_by_region') = MapRegions(shortest_paths_by_region)]_vars

\* the map was initialized for two regions whose shortest paths have equal len
NoRegionLostWitness ==
    /\ pc = "priority"
    /\ last.kind = "init"
    /\ Len(entrances_by_region) = 2
    /\ Lens({})[1] = Lens({})[2]

\* without two keys of equal len the map holds one entry for each region
\* after the initialization
NoRegionLostDistinctLens ==
    (pc = "priority" /\ last.kind = "init"
        /\ \A i, j \in 1..Len(entrances_by_region) : i # j => Lens({})[i] # Lens({})[j]) =>
        /\ Len(shortest_paths_by_region) = Len(entrances_by_region)
        /\ MapRegions(shortest_paths_by_region) = 0..(Len(entrances_by_region) - 1)

\* the entry the priority loop pops in this step, and the region it names
Popped == Head(shortest_paths_by_region)

PoppedRegion == Popped.value + 1

\* the popped path starts on an entrance of the popped region, is a walk to a
\* Core under the Build, and has the len of that region's fresh shortest path,
\* which no entry of the map is below
WorksOnWeakest ==
    /\ PoppedRegion \in 1..Len(entrances_by_region)
    /\ Popped.key.path[1] \in EntranceSet(entrances_by_region[PoppedRegion])
    /\ IsWalk(Popped.key.path, EntranceSet(entrances_by_region[PoppedRegion]), Core, grid,
              Some(blocks), diagonals)
    /\ Lens(blocks)[PoppedRegion] =
           Some(Len(Popped.key.path) + Popped.key.start_distance[1])
    /\ \A i \in 1..Len(shortest_paths_by_region) :
           len(Popped.key) <= len(shortest_paths_by_region[i].key)

\* C23: whenever the priority strategy attempts a placement along a popped
\* (path, region) entry, the path starts at an entrance of that region, is a
\* legal walk under the current Build, has the len of the region's freshly
\* recomputed shortest path, and no entry of the map has a smaller len; an
\* entry with a coordinate in the Build is recomputed and put back without
\* any placement in that iteration
PriorityWeakest ==
    [][(pc = "priority" /\ steps' = steps + 1) =>
          IF is_stale(Popped.key.path, blocks)
          THEN blocks' = blocks /\ last'.kind \in {"stale", "panic"}
          ELSE last'.kind \in {"place", "no_place"} /\ WorksOnWeakest]_vars

\* a placement is about to be attempted along a popped path while the map
\* holds another entry and the Build has blocks
PriorityWeakestWitness ==
    /\ pc = "priority"
    /\ steps < MaxSteps
    /\ ~cap_reached(max_blocks, blocks)
    /\ Len(shortest_paths_by_region) >= 2
    /\ blocks # {}
    /\ ~is_stale(Popped.key.path, blocks)

\* a block on c would be a valid placement: c is Empty in the grid and every
\* spawn region still reaches a Core with c blocked as well
Placeable(c, overlay) ==
    /\ grid[c[2] + 1][c[1] + 1] = "Empty"
    /\ Connected(grid, overlay \cup {c})

\* C24: when the round-robin strategy returns without having reached
\* max_blocks, it is at a fixpoint: every spawn region has a shortest path
\* under the final Build, and no cell of it is a valid placement
RoundRobinFixpoint ==
    (pc = "built" /\ ~prioritize /\ last.kind = "break") =>
        \A region \in 1..Len(entrances_by_region) :
            /\ PathsUnder(blocks)[region] # None
            /\ \A k \in 1..Len(PathsUnder(blocks)[region][1].path) :
                   ~Placeable(PathsUnder(blocks)[region][1].path[k], blocks)

\* the run of two regions or more returned by the break with blocks placed
RoundRobinFixpointWitness ==
    /\ pc = "built"
    /\ ~prioritize
    /\ last.kind = "break"
    /\ Len(entrances_by_region) >= 2
    /\ blocks # {}
    /\ max_blocks = None

\* the indices of the queried path whose cell would be a valid placement
Candidates ==
    {k \in 1..Len(query.path[1].path) : Placeable(query.path[1].path[k], blocks)}

\* C25: find_valid_block_placement returns the coordinate of the path with the
\* greatest index whose grid tile is Empty and with which the existing blocks
\* are still valid, and returns None exactly when the path has no such
\* coordinate; what it returns is never a Pass, Core, Spawn, Impass or Block
\* cell, and the existing blocks are left as they were
PlacementNearestCore ==
    (pc = "query" /\ query.kind = "valid" /\ query.path # None) =>
        /\ IF Candidates = {}
           THEN query.result = None
           ELSE /\ query.result # None
                /\ \E k \in Candidates :
                       /\ query.result[1] = query.path[1].path[k]
                       /\ \A h \in Candidates : h <= k
                /\ grid[query.result[1][2] + 1][query.result[1][1] + 1] = "Empty"
                /\ query.result[1] \notin blocks
        /\ blocks = (IF query.build = None THEN {} ELSE query.build[1])

\* the placement found has a valid candidate before it on the path and an
\* Empty cell after it that would cut a region off
PlacementNearestCoreWitness ==
    /\ pc = "query"
    /\ query.kind = "valid"
    /\ query.path # None
    /\ query.result # None
    /\ \E k \in Candidates :
           /\ query.result[1] = query.path[1].path[k]
           /\ \E h \in Candidates : h < k
           /\ \E j \in (k + 1)..Len(query.path[1].path) :
                  grid[query.path[1].path[j][2] + 1][query.path[1].path[j][1] + 1] = "Empty"

\* the path has Empty cells and none of them is a valid placement
PlacementAbsentWitness ==
    /\ pc = "query"
    /\ query.kind = "valid"
    /\ query.path # None
    /\ query.result = None
    /\ \E k \in 1..Len(query.path[1].path) :
           grid[query.path[1].path[k][2] + 1][query.path[1].path[k][1] + 1] = "Empty"

\* C26: in every state of a run of either strategy every coordinate of the
\* Build is in bounds and its tile in the grid is Empty, and a coordinate that
\* is committed was not in the Build when it was committed
BlocksOnNewEmpty ==
    /\ \A c \in blocks : InBounds(c, grid) /\ grid[c[2] + 1][c[1] + 1] = "Empty"
    /\ Placed => (last.coord # None /\ last.coord[1] \notin last.before)

\* the priority strategy committed a block to a Build that had blocks, on a
\* grid that has Pass cells
BlocksOnNewEmptyWitness ==
    /\ Placed
    /\ prioritize
    /\ last.before # {}
    /\ last.coord[1] \in blocks
    /\ \E c \in Coords(grid) : grid[c[2] + 1][c[1] + 1] = "Pass"

-----------------------------------------------------------------------------
(* Validity is decided on orthogonal paths only *)

\* every spawn region has an entrance with a walk to a Core under the overlay,
\* the walk taking diagonal steps when diag allows them
ConnectedBy(g, overlay, diag) ==
    LET regions == Tileset_new(g).entrances_by_region
    IN  \A r \in 1..Len(regions) :
            \E e \in EntranceSet(regions[r]) :
                /\ PassableUnder(e, g, Some(overlay))
                /\ MinMoves(e, "Core", g, Some(overlay), diag) >= 0

\* the Empty cells of the queried path whose block would leave every region a
\* walk to a Core, but for some region only walks with a diagonal step
DiagonalOnly ==
    {c \in Coords(grid) :
        /\ query.path # None
        /\ \E i \in 1..Len(query.path[1].path) : query.path[1].path[i] = c
        /\ grid[c[2] + 1][c[1] + 1] = "Empty"
        /\ ConnectedBy(grid, blocks \cup {c}, TRUE)
        /\ ~Connected(grid, blocks \cup {c})}

\* C27: is_valid is true iff every spawn region has an entrance, passable under
\* the overlay, with a 4-connected walk to a Core under the overlay, whatever the
\* diagonals flag; a region without entrances makes the Build invalid; and the
\* placement found along a path never leaves a region without such a walk
ValidityOrthogonal ==
    (pc = "query" /\ query.kind = "valid") =>
        /\ query.valid <=> Connected(grid, blocks)
        /\ (\E r \in 1..Len(entrances_by_region) : Len(entrances_by_region[r]) = 0)
               => ~query.valid
        /\ query.result # None => Connected(grid, blocks \cup {query.result[1]})
        /\ \A c \in DiagonalOnly : query.result # Some(c)

\* with diagonals on, a block on a valid input cuts a region off and the Build is invalid
ValidityOrthogonalWitness ==
    /\ pc = "query"
    /\ query.kind = "valid"
    /\ diagonals
    /\ InputValid
    /\ blocks # {}
    /\ ~query.valid
    /\ query.path = None

\* a diagonal step needs a passable flank, through which an orthogonal walk
\* passes: no Build leaves a region walks with a diagonal step only
DiagonalOnlyAbsent ==
    (pc = "query" /\ query.kind = "valid") =>
        /\ DiagonalOnly = {}
        /\ ConnectedBy(grid, blocks, TRUE) <=> Connected(grid, blocks)

\* a region without entrances makes the empty Build invalid
ValidityNoEntranceWitness ==
    /\ pc = "query"
    /\ query.kind = "valid"
    /\ blocks = {}
    /\ \E r \in 1..Len(entrances_by_region) : Len(entrances_by_region[r]) = 0
    /\ ~query.valid

-----------------------------------------------------------------------------
(* The Build grows by one block per placement of the round-robin loop *)

-----------------------------------------------------------------------------
(* .expect(VALID_BUILD) on a valid input *)

\* the run has stopped in one of the .expect(VALID_BUILD) calls: every panic of
\* the model but the subtraction of the round-robin loop on an input without regions
ExpectFailed ==
    /\ pc = "panicked"
    /\ ~(~prioritize /\ last.region = None /\ sub_overflows(Len(entrances_by_region)))

\* C29: on an input whose every spawn region has an orthogonal walk from an
\* entrance to a Core, in every state of a run of either strategy, diagonals on
\* or off, no .expect(VALID_BUILD) has failed, the shortest path of every region
\* under the current Build is present, and the report has no absent entry
ExpectHolds ==
    InputValid =>
        /\ ~ExpectFailed
        /\ \A r \in 1..Len(entrances_by_region) :
               region_shortest_path(tileset, blocks, r - 1, diagonals) # None
        /\ pc \in {"reported", "done"} =>
               /\ Len(report) = Len(entrances_by_region)
               /\ \A i \in 1..Len(report) : report[i] # None

\* a report of two regions after a priority run with diagonals that has placed blocks
ExpectHoldsWitness ==
    /\ InputValid
    /\ pc = "done"
    /\ prioritize
    /\ diagonals
    /\ blocks # {}
    /\ Len(report) >= 2
    /\ \A i \in 1..Len(report) : report[i] # None

\* the same after a round-robin run
ExpectHoldsRoundRobinWitness ==
    /\ InputValid
    /\ pc = "done"
    /\ ~prioritize
    /\ blocks # {}
    /\ Len(report) >= 2
    /\ \A i \in 1..Len(report) : report[i] # None

\* on an input with a region that reaches no Core the assertion does fail
ExpectFailsOnInvalidWitness ==
    /\ ~InputValid
    /\ ExpectFailed

-----------------------------------------------------------------------------
(* Reading through the build and reading the grid the build is applied to *)

\* C30: for every grid, every Build of in-bounds coordinates and every query (a
\* start or a region, a target kind, diagonals on or off), the tile read, the
\* adjacency and the shortest paths computed on the grid under the Build are
\* those computed with no Build on the grid the Build has been applied to; so
\* the per-region lengths reported under the Build are those of the emitted grid
OverlayEqualsMaterialised ==
    /\ (pc = "query" /\ query.kind = "overlay") =>
           /\ query.applied # Panicked
           /\ query.tile = query.applied_tile
           /\ query.adjacent = query.applied_adjacent
           /\ query.path = query.applied_path
    /\ (pc = "query" /\ query.kind = "overlay_regions") =>
           /\ query.applied # Panicked
           /\ query.any = query.applied_any
           /\ query.lengths = query.applied_lengths

\* a block that changes the path of the start queried
OverlayEqualsMaterialisedWitness ==
    /\ pc = "query"
    /\ query.kind = "overlay"
    /\ blocks # {}
    /\ diagonals
    /\ query.end_point = Core
    /\ query.path # None
    /\ query.path # from_grid_coordinate_to_tile(grid, None, query.coord,
                         query.start_distance, Core, diagonals)

\* a block that changes the length reported for a region
OverlayLengthsWitness ==
    /\ pc = "query"
    /\ query.kind = "overlay_regions"
    /\ blocks # {}
    /\ query.lengths # path_lengths(
                           ShortestPath_from_entrances_to_any_core(tileset, None, diagonals))
    /\ \E r \in 1..Len(query.lengths) : query.lengths[r] # None

\* a block over a cell that is not Empty, read as a Block both ways
OverlayOverRegionWitness ==
    /\ pc = "query"
    /\ query.kind = "overlay"
    /\ query.coord \in blocks
    /\ grid[query.coord[2] + 1][query.coord[1] + 1] \in {"Core", "Spawn", "Pass"}
    /\ query.tile = Some(Block)
    /\ query.applied_tile = Some(Block)

\* a path to a Block, which only the Build makes
OverlayBlockTargetWitness ==
    /\ pc = "query"
    /\ query.kind = "overlay"
    /\ query.end_point = Block
    /\ query.path # None
    /\ query.applied_path # None

\* the same at the end of a run: the lengths App::run has reported under the
\* Build are the lengths on the grid it emits, for the regions of the input and
\* for the regions found anew on the emitted grid
ReportOfEmittedGrid ==
    pc = "done" =>
        /\ report = path_lengths(ShortestPath_from_entrances_to_any_core(
                        Tileset(map_grid, entrances_by_region), None, diagonals))
        /\ report = path_lengths(ShortestPath_from_entrances_to_any_core(
                        Tileset_new(map_grid), None, diagonals))

====
